---- MODULE Spec2Model ----
(***************************************************************************)
(* A model of the packet codec library of netutils (src/lib): the frame    *)
(* types Arp, EthernetII, Ipv4, Tcp and Udp with from_bytes / to_bytes,    *)
(* the big-endian scalar n16, and the Internet checksum engine             *)
(* (Checksum::sum, Checksum::compile, Udp::is_valid).                      *)
(*                                                                         *)
(* Bytes are the integers 0..255, a buffer is a sequence of bytes, and a   *)
(* byte offset of the source (0-based) is index offset+1 of the sequence.  *)
(* The headers are #[repr(packed)] structs that the code reads and writes  *)
(* by reinterpreting memory, so a header is modelled by its fields and     *)
(* the two directions of the reinterpretation are written out separately.  *)
(* A native u16 (Checksum.data, the loads of Checksum::sum, the literal    *)
(* 0x1100u16 of Udp::is_valid) is little-endian: the code's own test       *)
(* vectors (udp.rs:115-179) hold for that byte order only.                 *)
(***************************************************************************)
EXTENDS Integers, Sequences, FiniteSets, TLC

VARIABLES
    kind,     \* the frame type under test
    pc,       \* position of the codec scenario
    bytes,    \* the wire buffer: the input of from_bytes, the output of to_bytes
    frame,    \* the frame value: the output of from_bytes, the input of to_bytes
    res,      \* what the last from_bytes did: tag, offsets read, slices taken
    orig,     \* the scenario's first input, a buffer or a frame, never changed
    task,     \* the checksum function under test
    arg,      \* the input of the checksum function
    out,      \* the result of the checksum function
    threads,  \* the threads that run codec operations side by side
    ping      \* the ping program: its Ping value, its files and its clock

vars == <<kind, pc, bytes, frame, res, orig, task, arg, out, threads, ping>>

sumVars == <<task, arg, out>>

\* No threads, no ping program.
IdleThreads == threads = <<>>
IdlePing == ping = <<>>

-----------------------------------------------------------------------------
(* Bounds of the model.                                                    *)

\* A buffer holds at most the fixed header and MaxTail further bytes.
MaxTail == 6
\* The number of filler patterns the bytes of a buffer are drawn from.
NumFills == 2
\* A constructed frame carries at most MaxData bytes of data.
MaxData == 3
\* A constructed frame carries at most MaxOptWords 32-bit words of options.
MaxOptWords == 1

\* A summed region holds at most MaxRegion bytes.
MaxRegion == 5
\* Raw sums are drawn within MaxLow of either end of the low 16 bits ...
MaxLow == 3
\* ... and within MaxHigh of either end of the carry bits above them.
MaxHigh == 3

-----------------------------------------------------------------------------
(* Bytes and scalars.                                                      *)

\* value.to_be() as the two bytes in memory, and u16::from_be of them.
\* An n16 that stores the value in host (little-endian) order.
N16NewLittle(value) == << value % 256, (value \div 256) % 256 >>

N16New(value) == << (value % 65536) \div 256, value % 256 >>
N16Get(n) == n[1] * 256 + n[2]
N16Set(x, value) == N16New(value)

\* An n32 is the four bytes of its field in memory.
N32New(value) ==
    << (value \div 16777216) % 256, (value \div 65536) % 256,
       (value \div 256) % 256, value % 256 >>
N32Get(n) == ((n[1] * 256 + n[2]) * 256 + n[3]) * 256 + n[4]
N32Set(x, value) == N32New(value)

\* A native u16 in memory and back.
NativeBytes(value) == << value % 256, (value \div 256) % 256 >>
NativeU16(b0, b1) == b0 + 256 * b1

\* bytes[start .. end] of Rust: Panic unless start <= end <= bytes.len().
SliceOk(b, cut) == cut[1] <= cut[2] /\ cut[2] <= Len(b)
Slice(b, cut) == SubSeq(b, cut[1] + 1, cut[2])

NoFrame == [header |-> <<>>, options |-> <<>>, data |-> <<>>]
NoCut == <<>>

None == [tag |-> "None", frame |-> NoFrame, reads |-> {}, slices |-> <<>>]

\* The Some(...) expression of a from_bytes: the header was read from offsets
\* 0 .. size-1, then the slices are taken in order; a slice out of range panics.
Decoded(b, size, header, optCut, dataCut) ==
    LET cuts == IF optCut = NoCut THEN <<dataCut>> ELSE <<optCut, dataCut>>
        ok == \A i \in DOMAIN cuts : SliceOk(b, cuts[i])
        touched == UNION { cuts[i][1] .. (cuts[i][2] - 1) : i \in DOMAIN cuts }
    IN  IF ok
        THEN [tag |-> "Some",
              frame |-> [header |-> header,
                         options |-> IF optCut = NoCut THEN <<>> ELSE Slice(b, optCut),
                         data |-> Slice(b, dataCut)],
              reads |-> (0 .. (size - 1)) \cup touched,
              slices |-> cuts]
        ELSE [tag |-> "Panic", frame |-> NoFrame,
              reads |-> (0 .. (size - 1)) \cup touched,
              slices |-> cuts]

-----------------------------------------------------------------------------
(* Checksum                                                                *)

\* The loop of Checksum::sum over the memory at ptr: one native 16-bit load
\* per pass while more than one byte is left, then the odd byte. The offsets
\* read are collected with the sum.
RECURSIVE SumLoop(_, _, _, _, _)
SumLoop(mem, ptr, len, sum, reads) ==
    IF len > 1
    THEN SumLoop(mem, ptr + 2, len - 2,
                 sum + NativeU16(mem[ptr + 1], mem[ptr + 2]),
                 reads \cup {ptr, ptr + 1})
    ELSE IF len > 0
         THEN [sum |-> sum + mem[ptr + 1], reads |-> reads \cup {ptr}]
         ELSE [sum |-> sum, reads |-> reads]

\* The loop with the odd trailing byte left out.
RECURSIVE SumLoopNoTail(_, _, _, _, _)
SumLoopNoTail(mem, ptr, len, sum, reads) ==
    IF len > 1
    THEN SumLoopNoTail(mem, ptr + 2, len - 2,
                       sum + NativeU16(mem[ptr + 1], mem[ptr + 2]),
                       reads \cup {ptr, ptr + 1})
    ELSE [sum |-> sum, reads |-> reads]

\* The loop stopping one word early (while len > 2).
RECURSIVE SumLoopShort(_, _, _, _, _)
SumLoopShort(mem, ptr, len, sum, reads) ==
    IF len > 2
    THEN SumLoopShort(mem, ptr + 2, len - 2,
                      sum + NativeU16(mem[ptr + 1], mem[ptr + 2]),
                      reads \cup {ptr, ptr + 1})
    ELSE IF len > 0
         THEN [sum |-> sum + mem[ptr + 1], reads |-> reads \cup {ptr}]
         ELSE [sum |-> sum, reads |-> reads]

\* The loop with the odd trailing byte taken as the high-order byte of a word.
RECURSIVE SumLoopTailHigh(_, _, _, _, _)
SumLoopTailHigh(mem, ptr, len, sum, reads) ==
    IF len > 1
    THEN SumLoopTailHigh(mem, ptr + 2, len - 2,
                         sum + NativeU16(mem[ptr + 1], mem[ptr + 2]),
                         reads \cup {ptr, ptr + 1})
    ELSE IF len > 0
         THEN [sum |-> sum + 256 * mem[ptr + 1], reads |-> reads \cup {ptr}]
         ELSE [sum |-> sum, reads |-> reads]

ChecksumSumTailHigh(region) == SumLoopTailHigh(region, 0, Len(region), 0, {})
ChecksumSumNoTail(region) == SumLoopNoTail(region, 0, Len(region), 0, {})
ChecksumSumShort(region) == SumLoopShort(region, 0, Len(region), 0, {})

\* Checksum::sum(ptr, len) on a region of len bytes starting at ptr.
ChecksumSum(region) == SumLoop(region, 0, Len(region), 0, {})

\* The while loop of Checksum::compile.
RECURSIVE Fold(_)
Fold(sum) ==
    IF sum \div 65536 > 0
    THEN Fold((sum % 65536) + (sum \div 65536))
    ELSE sum

\* A single fold pass in place of the loop.
ChecksumCompileOnePass(sum) ==
    LET once == IF sum \div 65536 > 0
                THEN (sum % 65536) + (sum \div 65536)
                ELSE sum
    IN  65535 - (once % 65536)

\* Checksum::compile(sum): 0xFFFF - (sum as u16) after the loop.
ChecksumCompile(sum) == 65535 - (Fold(sum) % 65536)

-----------------------------------------------------------------------------
(* Arp                                                                     *)

ArpHeaderSize == 28

ArpHeaderRead(b) ==
    [htype |-> SubSeq(b, 1, 2), ptype |-> SubSeq(b, 3, 4),
     hlen |-> b[5], plen |-> b[6], oper |-> SubSeq(b, 7, 8),
     src_mac |-> [bytes |-> SubSeq(b, 9, 14)],
     src_ip |-> [bytes |-> SubSeq(b, 15, 18)],
     dst_mac |-> [bytes |-> SubSeq(b, 19, 24)],
     dst_ip |-> [bytes |-> SubSeq(b, 25, 28)]]

ArpHeaderBytes(h) ==
    h.htype \o h.ptype \o <<h.hlen, h.plen>> \o h.oper \o h.src_mac.bytes
        \o h.src_ip.bytes \o h.dst_mac.bytes \o h.dst_ip.bytes

ArpFromBytes(b) ==
    IF Len(b) >= ArpHeaderSize
    THEN Decoded(b, ArpHeaderSize, ArpHeaderRead(b), NoCut,
                 <<ArpHeaderSize, Len(b)>>)
    ELSE None

ArpToBytes(f) == ArpHeaderBytes(f.header) \o f.data

-----------------------------------------------------------------------------
(* EthernetII                                                              *)

EthernetIIHeaderSize == 14

EthernetIIHeaderRead(b) ==
    [dst |-> [bytes |-> SubSeq(b, 1, 6)], src |-> [bytes |-> SubSeq(b, 7, 12)],
     ethertype |-> SubSeq(b, 13, 14)]

\* The header with the source address written before the destination.
EthernetIIHeaderBytesSrcFirst(h) == h.src.bytes \o h.dst.bytes \o h.ethertype

EthernetIIHeaderBytes(h) == h.dst.bytes \o h.src.bytes \o h.ethertype

EthernetIIFromBytes(b) ==
    IF Len(b) >= EthernetIIHeaderSize
    THEN Decoded(b, EthernetIIHeaderSize, EthernetIIHeaderRead(b), NoCut,
                 <<EthernetIIHeaderSize, Len(b)>>)
    ELSE None

EthernetIIToBytes(f) == EthernetIIHeaderBytes(f.header) \o f.data

-----------------------------------------------------------------------------
(* Ipv4                                                                    *)

Ipv4HeaderSize == 20

Ipv4HeaderRead(b) ==
    [ver_hlen |-> b[1], services |-> b[2], len |-> SubSeq(b, 3, 4),
     id |-> SubSeq(b, 5, 6), flags_fragment |-> SubSeq(b, 7, 8),
     ttl |-> b[9], proto |-> b[10],
     checksum |-> [data |-> NativeU16(b[11], b[12])],
     src |-> [bytes |-> SubSeq(b, 13, 16)],
     dst |-> [bytes |-> SubSeq(b, 17, 20)]]

Ipv4HeaderBytes(h) ==
    <<h.ver_hlen, h.services>> \o h.len \o h.id \o h.flags_fragment
        \o <<h.ttl, h.proto>> \o NativeBytes(h.checksum.data)
        \o h.src.bytes \o h.dst.bytes

\* The header length with the mask left out: (header.ver_hlen << 2) in a u8.
Ipv4HeaderLenNoMask(header) == (header.ver_hlen * 4) % 256

\* ((header.ver_hlen & 0xF) << 2) as usize
Ipv4HeaderLen(header) == (header.ver_hlen % 16) * 4

\* from_bytes without the test of the total length against the buffer.
Ipv4FromBytesNoTotalCheck(b) ==
    IF Len(b) >= Ipv4HeaderSize
    THEN LET header == Ipv4HeaderRead(b)
             header_len == Ipv4HeaderLen(header)
         IN  IF /\ header_len >= Ipv4HeaderSize
                /\ header_len <= Len(b)
                /\ header_len <= N16Get(header.len)
             THEN Decoded(b, Ipv4HeaderSize, header,
                          <<Ipv4HeaderSize, header_len>>,
                          <<header_len, N16Get(header.len)>>)
             ELSE None
    ELSE None

\* A decoder that also verifies the header checksum.
Ipv4FromBytesVerifying(b) ==
    IF Len(b) >= Ipv4HeaderSize
    THEN LET header == Ipv4HeaderRead(b)
             header_len == Ipv4HeaderLen(header)
         IN  IF /\ header_len >= Ipv4HeaderSize
                /\ header_len <= Len(b)
                /\ N16Get(header.len) <= Len(b)
                /\ header_len <= N16Get(header.len)
                /\ ChecksumCompile(
                       ChecksumSum(SubSeq(b, 1, Ipv4HeaderSize)).sum) = 0
             THEN Decoded(b, Ipv4HeaderSize, header,
                          <<Ipv4HeaderSize, header_len>>,
                          <<header_len, N16Get(header.len)>>)
             ELSE None
    ELSE None

Ipv4FromBytes(b) ==
    IF Len(b) >= Ipv4HeaderSize
    THEN LET header == Ipv4HeaderRead(b)
             header_len == Ipv4HeaderLen(header)
         IN  IF /\ header_len >= Ipv4HeaderSize
                /\ header_len <= Len(b)
                /\ N16Get(header.len) <= Len(b)
                /\ header_len <= N16Get(header.len)
             THEN Decoded(b, Ipv4HeaderSize, header,
                          <<Ipv4HeaderSize, header_len>>,
                          <<header_len, N16Get(header.len)>>)
             ELSE None
    ELSE None

\* An encoder that leaves the options out.
Ipv4ToBytesNoOptions(f) == Ipv4HeaderBytes(f.header) \o f.data

Ipv4ToBytes(f) == Ipv4HeaderBytes(f.header) \o f.options \o f.data

\* checksum() summing the header as it stands, the old checksum included.
Ipv4ChecksumNoZero(f) ==
    [f EXCEPT !.header.checksum.data =
        ChecksumCompile(ChecksumSum(Ipv4HeaderBytes(f.header)).sum)]

\* Ipv4::checksum(&mut self): the frame after the call.
Ipv4Checksum(f) ==
    LET zeroed == [f EXCEPT !.header.checksum.data = 0]
    IN  [zeroed EXCEPT !.header.checksum.data =
            ChecksumCompile(ChecksumSum(Ipv4HeaderBytes(zeroed.header)).sum)]

-----------------------------------------------------------------------------
(* Tcp                                                                     *)

TcpHeaderSize == 20

TcpHeaderRead(b) ==
    [src |-> SubSeq(b, 1, 2), dst |-> SubSeq(b, 3, 4),
     sequence |-> SubSeq(b, 5, 8), ack_num |-> SubSeq(b, 9, 12),
     flags |-> SubSeq(b, 13, 14), window_size |-> SubSeq(b, 15, 16),
     checksum |-> [data |-> NativeU16(b[17], b[18])],
     urgent_pointer |-> SubSeq(b, 19, 20)]

TcpHeaderBytes(h) ==
    h.src \o h.dst \o h.sequence \o h.ack_num \o h.flags \o h.window_size
        \o NativeBytes(h.checksum.data) \o h.urgent_pointer

\* The data offset in words, not bytes: a shift by 12.
TcpHeaderLenWords(header) == ((N16Get(header.flags) \div 4096) * 4096) \div 4096

\* ((header.flags.get() & 0xF000) >> 10) as usize
TcpHeaderLen(header) == ((N16Get(header.flags) \div 4096) * 4096) \div 1024

TcpFromBytes(b) ==
    IF Len(b) >= TcpHeaderSize
    THEN LET header == TcpHeaderRead(b)
             header_len == TcpHeaderLen(header)
         IN  IF header_len >= TcpHeaderSize /\ header_len <= Len(b)
             THEN Decoded(b, TcpHeaderSize, header,
                          <<TcpHeaderSize, header_len>>,
                          <<header_len, Len(b)>>)
             ELSE None
    ELSE None

\* to_bytes with the data put before the options.
TcpToBytesDataFirst(f) == TcpHeaderBytes(f.header) \o f.data \o f.options

TcpToBytes(f) == TcpHeaderBytes(f.header) \o f.options \o f.data

\* Protocol 6 of the pseudo header: n16::new(0x06).
TcpPseudoProto == 6

\* checksum() with the protocol summed as a native u16, not as an n16.
TcpChecksumNativeProto(f, src_addr, dst_addr) ==
    LET zeroed == [f EXCEPT !.header.checksum.data = 0]
        segment_len ==
            N16New((TcpHeaderSize + Len(f.options) + Len(f.data)) % 65536)
    IN  [zeroed EXCEPT !.header.checksum.data =
            ChecksumCompile(
                ChecksumSum(src_addr.bytes).sum
                + ChecksumSum(dst_addr.bytes).sum
                + ChecksumSum(segment_len).sum
                + ChecksumSum(NativeBytes(TcpPseudoProto)).sum
                + ChecksumSum(TcpHeaderBytes(zeroed.header)).sum
                + ChecksumSum(f.options).sum
                + ChecksumSum(f.data).sum)]

\* Tcp::checksum(&mut self, src_addr, dst_addr): the segment after the call.

\* A checksum over a pseudo header without the segment length.
TcpChecksumNoLength(f, src_addr, dst_addr) ==
    LET zeroed == [f EXCEPT !.header.checksum.data = 0]
        proto == N16New(6)
    IN  [zeroed EXCEPT !.header.checksum.data =
            ChecksumCompile(
                ChecksumSum(src_addr.bytes).sum
                + ChecksumSum(dst_addr.bytes).sum
                + ChecksumSum(proto).sum
                + ChecksumSum(TcpHeaderBytes(zeroed.header)).sum
                + ChecksumSum(f.options).sum
                + ChecksumSum(f.data).sum)]

TcpChecksum(f, src_addr, dst_addr) ==
    LET zeroed == [f EXCEPT !.header.checksum.data = 0]
        proto == N16New(TcpPseudoProto)
        segment_len ==
            N16New((TcpHeaderSize + Len(f.options) + Len(f.data)) % 65536)
    IN  [zeroed EXCEPT !.header.checksum.data =
            ChecksumCompile(
                ChecksumSum(src_addr.bytes).sum
                + ChecksumSum(dst_addr.bytes).sum
                + ChecksumSum(segment_len).sum
                + ChecksumSum(proto).sum
                + ChecksumSum(TcpHeaderBytes(zeroed.header)).sum
                + ChecksumSum(f.options).sum
                + ChecksumSum(f.data).sum)]

\* The second store of Ipv4::checksum and of Tcp::checksum: the value.
Ipv4CompiledSum(f) ==
    ChecksumCompile(ChecksumSum(Ipv4HeaderBytes(f.header)).sum)

TcpCompiledSum(f, src_addr, dst_addr) ==
    LET proto == N16New(TcpPseudoProto)
        segment_len ==
            N16New((TcpHeaderSize + Len(f.options) + Len(f.data)) % 65536)
    IN  ChecksumCompile(
            ChecksumSum(src_addr.bytes).sum
            + ChecksumSum(dst_addr.bytes).sum
            + ChecksumSum(segment_len).sum
            + ChecksumSum(proto).sum
            + ChecksumSum(TcpHeaderBytes(f.header)).sum
            + ChecksumSum(f.options).sum
            + ChecksumSum(f.data).sum)

-----------------------------------------------------------------------------
(* Udp                                                                     *)

UdpHeaderSize == 8

UdpHeaderRead(b) ==
    [src |-> SubSeq(b, 1, 2), dst |-> SubSeq(b, 3, 4), len |-> SubSeq(b, 5, 6),
     checksum |-> [data |-> NativeU16(b[7], b[8])]]

UdpHeaderBytes(h) ==
    h.src \o h.dst \o h.len \o NativeBytes(h.checksum.data)

\* from_bytes taking the data to the end of the buffer.
UdpFromBytesToEnd(b) ==
    IF Len(b) >= UdpHeaderSize
    THEN LET header == UdpHeaderRead(b)
         IN  IF /\ N16Get(header.len) <= Len(b)
                /\ UdpHeaderSize <= N16Get(header.len)
             THEN Decoded(b, UdpHeaderSize, header, NoCut,
                          <<UdpHeaderSize, Len(b)>>)
             ELSE None
    ELSE None

UdpFromBytes(b) ==
    IF Len(b) >= UdpHeaderSize
    THEN LET header == UdpHeaderRead(b)
         IN  IF /\ N16Get(header.len) <= Len(b)
                /\ UdpHeaderSize <= N16Get(header.len)
             THEN Decoded(b, UdpHeaderSize, header, NoCut,
                          <<UdpHeaderSize, N16Get(header.len)>>)
             ELSE None
    ELSE None

UdpToBytes(f) == UdpHeaderBytes(f.header) \o f.data

\* Protocol 17 in the pseudo header: the literal 0x1100u16.
UdpPseudoProto == 4352

\* is_valid without the all-ones rule for a computed checksum of zero.
UdpIsValidNoAllOnes(f, src_addr, dst_addr) ==
    IF f.header.checksum.data = 0
    THEN TRUE
    ELSE LET header == [f.header EXCEPT !.checksum.data = 0]
             computed_checksum ==
                 ChecksumCompile(
                     ChecksumSum(src_addr.bytes).sum
                     + ChecksumSum(dst_addr.bytes).sum
                     + ChecksumSum(NativeBytes(UdpPseudoProto)).sum
                     + ChecksumSum(header.len).sum
                     + ChecksumSum(UdpHeaderBytes(header)).sum
                     + ChecksumSum(f.data).sum)
         IN  computed_checksum = f.header.checksum.data

\* is_valid without the bypass for a stored checksum of zero.
UdpIsValidNoBypass(f, src_addr, dst_addr) ==
    LET header == [f.header EXCEPT !.checksum.data = 0]
        computed_checksum ==
            ChecksumCompile(
                ChecksumSum(src_addr.bytes).sum
                + ChecksumSum(dst_addr.bytes).sum
                + ChecksumSum(NativeBytes(UdpPseudoProto)).sum
                + ChecksumSum(header.len).sum
                + ChecksumSum(UdpHeaderBytes(header)).sum
                + ChecksumSum(f.data).sum)
        adjusted == IF computed_checksum = 0 THEN 65535 ELSE computed_checksum
    IN  adjusted = f.header.checksum.data

\* Udp::is_valid(src_addr, dst_addr)
UdpIsValid(f, src_addr, dst_addr) ==
    IF f.header.checksum.data = 0
    THEN TRUE
    ELSE LET header == [f.header EXCEPT !.checksum.data = 0]
             computed_checksum ==
                 ChecksumCompile(
                     ChecksumSum(src_addr.bytes).sum
                     + ChecksumSum(dst_addr.bytes).sum
                     + ChecksumSum(NativeBytes(UdpPseudoProto)).sum
                     + ChecksumSum(header.len).sum
                     + ChecksumSum(UdpHeaderBytes(header)).sum
                     + ChecksumSum(f.data).sum)
             adjusted == IF computed_checksum = 0 THEN 65535
                         ELSE computed_checksum
         IN  adjusted = f.header.checksum.data

-----------------------------------------------------------------------------
(* The five frame types behind one name.                                   *)

Kinds == {"Arp", "EthernetII", "Ipv4", "Tcp", "Udp"}

HeaderSize(k) ==
    CASE k = "Arp" -> ArpHeaderSize
      [] k = "EthernetII" -> EthernetIIHeaderSize
      [] k = "Ipv4" -> Ipv4HeaderSize
      [] k = "Tcp" -> TcpHeaderSize
      [] k = "Udp" -> UdpHeaderSize

FromBytes(k, b) ==
    CASE k = "Arp" -> ArpFromBytes(b)
      [] k = "EthernetII" -> EthernetIIFromBytes(b)
      [] k = "Ipv4" -> Ipv4FromBytes(b)
      [] k = "Tcp" -> TcpFromBytes(b)
      [] k = "Udp" -> UdpFromBytes(b)

ToBytes(k, f) ==
    CASE k = "Arp" -> ArpToBytes(f)
      [] k = "EthernetII" -> EthernetIIToBytes(f)
      [] k = "Ipv4" -> Ipv4ToBytes(f)
      [] k = "Tcp" -> TcpToBytes(f)
      [] k = "Udp" -> UdpToBytes(f)

-----------------------------------------------------------------------------
(* Inputs: received buffers and constructed frames.                        *)

Seeds == 0 .. (NumFills - 1)

\* A buffer of n bytes of a filler pattern.
Fill(n, s) == [i \in 1 .. n |-> (s * 101 + i * 37 + 11) % 256]

\* The buffer with the byte at an offset set, when the buffer has that offset.
Put(b, off, v) == IF off < Len(b) THEN [b EXCEPT ![off + 1] = v] ELSE b
Put16(b, off, v) == Put(Put(b, off, (v \div 256) % 256), off + 1, v % 256)

Lengths(k) == 0 .. (HeaderSize(k) + MaxTail)

\* Values of an embedded 16-bit length field: everything up to one past the
\* longest buffer, the header size with its two bytes swapped, and the maximum.
LenFieldValues(k) ==
    (0 .. (HeaderSize(k) + MaxTail + 1)) \cup {HeaderSize(k) * 256, 65535}

\* Header-length nibbles (32-bit words) and the other nibble of the same byte.
HlenNibbles == {0, 4, 5, 6, 15}
OtherNibbles == {4, 6}

WireBuffers(k) ==
    CASE k = "Ipv4" ->
           { Put16(Put(Fill(n, s), 0, 16 * v + h), 2, t) :
               n \in Lengths(k), s \in Seeds, v \in OtherNibbles,
               h \in HlenNibbles, t \in LenFieldValues(k) }
      [] k = "Tcp" ->
           { Put(Fill(n, s), 12, 16 * h + v) :
               n \in Lengths(k), s \in Seeds, v \in OtherNibbles,
               h \in HlenNibbles }
      [] k = "Udp" ->
           { Put16(Fill(n, s), 4, t) :
               n \in Lengths(k), s \in Seeds, t \in LenFieldValues(k) }
      [] OTHER -> { Fill(n, s) : n \in Lengths(k), s \in Seeds }

Loopback == [bytes |-> <<127, 0, 0, 1>>]
SomeMac(s) == [bytes |-> Fill(6, s)]

OptionLens == { 4 * w : w \in 0 .. MaxOptWords }
DataLens == 0 .. MaxData

\* Frames as a caller builds them, field by field; the length fields are drawn
\* freely, so some frames are self-consistent and some are not.
BuiltFrames(k) ==
    CASE k = "Arp" ->
           { [header |-> [htype |-> N16New(1), ptype |-> N16New(2048),
                          hlen |-> 6, plen |-> 4, oper |-> N16New(1 + s),
                          src_mac |-> SomeMac(s), src_ip |-> Loopback,
                          dst_mac |-> SomeMac(s + 1),
                          dst_ip |-> [bytes |-> Fill(4, s)]],
              options |-> <<>>, data |-> Fill(d, s)] :
               s \in Seeds, d \in DataLens }
      [] k = "EthernetII" ->
           { [header |-> [dst |-> SomeMac(s), src |-> SomeMac(s + 1),
                          ethertype |-> N16New(2048 + s)],
              options |-> <<>>, data |-> Fill(d, s)] :
               s \in Seeds, d \in DataLens }
      [] k = "Ipv4" ->
           { [header |-> [ver_hlen |-> 64 + h, services |-> s,
                          len |-> N16New(t), id |-> N16New(4660 + s),
                          flags_fragment |-> N16New(16384), ttl |-> 64,
                          proto |-> 17, checksum |-> [data |-> 48879 + s],
                          src |-> Loopback, dst |-> [bytes |-> Fill(4, s)]],
              options |-> Fill(o, s + 1), data |-> Fill(d, s + 2)] :
               s \in Seeds, h \in {5, 5 + MaxOptWords},
               t \in Ipv4HeaderSize .. (Ipv4HeaderSize + 4 * MaxOptWords + MaxData),
               o \in OptionLens, d \in DataLens }
      [] k = "Tcp" ->
           { [header |-> [src |-> N16New(54110), dst |-> N16New(80 + s),
                          sequence |-> Fill(4, s), ack_num |-> Fill(4, s + 1),
                          flags |-> N16New(4096 * h + 16 + 2 * s),
                          window_size |-> N16New(65535),
                          checksum |-> [data |-> 4660 + s],
                          urgent_pointer |-> N16New(0)],
              options |-> Fill(o, s + 1), data |-> Fill(d, s + 2)] :
               s \in Seeds, h \in {5, 5 + MaxOptWords},
               o \in OptionLens, d \in DataLens }
      [] k = "Udp" ->
           { [header |-> [src |-> N16New(54110), dst |-> N16New(25000 + s),
                          len |-> N16New(t), checksum |-> [data |-> 50843 + s]],
              options |-> <<>>, data |-> Fill(d, s)] :
               s \in Seeds, t \in UdpHeaderSize .. (UdpHeaderSize + MaxData + 1),
               d \in DataLens }

-----------------------------------------------------------------------------
(* The codec scenarios: a received buffer is decoded and, when that gave a *)
(* frame, encoded again; a constructed frame is encoded and the bytes      *)
(* decoded again.                                                          *)

NewRes == [tag |-> "New", reads |-> {}, slices |-> <<>>]

IdleSum == /\ task = "idle"
           /\ arg = <<>>
           /\ out = <<>>

Init ==
    /\ IdleThreads
    /\ IdlePing
    /\ kind \in Kinds
    /\ \/ /\ pc = "wire"
          /\ bytes \in WireBuffers(kind)
          /\ frame = NoFrame
          /\ orig = bytes
       \/ /\ pc = "built"
          /\ frame \in BuiltFrames(kind)
          /\ bytes = <<>>
          /\ orig = frame
    /\ res = NewRes
    /\ IdleSum

ApplyFromBytes(next) ==
    LET r == FromBytes(kind, bytes)
    IN  /\ res' = [tag |-> r.tag, reads |-> r.reads, slices |-> r.slices]
        /\ frame' = r.frame
        /\ pc' = next
        /\ UNCHANGED <<kind, bytes, orig>>

ApplyToBytes(next) ==
    /\ bytes' = ToBytes(kind, frame)
    /\ pc' = next
    /\ UNCHANGED <<kind, frame, res, orig>>

DecodeWire ==
    /\ pc = "wire"
    /\ ApplyFromBytes("decoded")
    /\ UNCHANGED <<sumVars, threads, ping>>

EncodeDecoded ==
    /\ pc = "decoded"
    /\ res.tag = "Some"
    /\ ApplyToBytes("reencoded")
    /\ UNCHANGED <<sumVars, threads, ping>>

EncodeBuilt ==
    /\ pc = "built"
    /\ ApplyToBytes("encoded")
    /\ UNCHANGED <<sumVars, threads, ping>>

DecodeEncoded ==
    /\ pc = "encoded"
    /\ ApplyFromBytes("redecoded")
    /\ UNCHANGED <<sumVars, threads, ping>>

Next == DecodeWire \/ EncodeDecoded \/ EncodeBuilt \/ DecodeEncoded

Spec == Init /\ [][Next]_vars

-----------------------------------------------------------------------------
(* Properties of from_bytes and to_bytes.                                  *)

\* The length fields of a received buffer, taken from its bytes by offset.
RawIpv4Hlen(b) == (b[1] % 16) * 4
RawIpv4Total(b) == b[3] * 256 + b[4]
RawTcpHlen(b) == (b[13] \div 16) * 4
RawUdpLength(b) == b[5] * 256 + b[6]

\* An embedded length field of the buffer points past the buffer's end.
EmbeddedLenExceeds(k, b) ==
    /\ Len(b) >= HeaderSize(k)
    /\ CASE k = "Ipv4" -> RawIpv4Hlen(b) > Len(b) \/ RawIpv4Total(b) > Len(b)
         [] k = "Tcp" -> RawTcpHlen(b) > Len(b)
         [] k = "Udp" -> RawUdpLength(b) > Len(b)
         [] OTHER -> FALSE

\* C1: from_bytes of every frame type never panics and never reads an offset
\* at or past the buffer's length; it returns None when the buffer is shorter
\* than the fixed header or an embedded length field exceeds the buffer
\* length; on success every slice taken has start <= end <= buffer length.
C1_BoundsRejection ==
    pc = "decoded" =>
        /\ res.tag \in {"Some", "None"}
        /\ \A off \in res.reads : off < Len(bytes)
        /\ Len(bytes) < HeaderSize(kind) => res.tag = "None"
        /\ EmbeddedLenExceeds(kind, bytes) => res.tag = "None"
        /\ res.tag = "Some" =>
              \A i \in DOMAIN res.slices :
                  /\ res.slices[i][1] <= res.slices[i][2]
                  /\ res.slices[i][2] <= Len(bytes)

\* An IPv4 buffer that holds the whole header, whose total length field points
\* past its end, was rejected.
C1_Witness ==
    /\ pc = "decoded"
    /\ kind = "Ipv4"
    /\ Len(bytes) > Ipv4HeaderSize
    /\ RawIpv4Hlen(bytes) = Ipv4HeaderSize
    /\ RawIpv4Total(bytes) = Len(bytes) + 1
    /\ res.tag = "None"

\* The length fields of a constructed frame agree with its options and data.
SelfConsistent(k, f) ==
    CASE k = "Ipv4" ->
           /\ (f.header.ver_hlen % 16) * 4 = 20 + Len(f.options)
           /\ f.header.len[1] * 256 + f.header.len[2]
                 = 20 + Len(f.options) + Len(f.data)
      [] k = "Tcp" ->
           (f.header.flags[1] \div 16) * 4 = 20 + Len(f.options)
      [] k = "Udp" ->
           f.header.len[1] * 256 + f.header.len[2] = 8 + Len(f.data)
      [] OTHER -> TRUE

\* C2: for every self-consistent frame f of every type,
\* from_bytes(to_bytes(f)) succeeds and gives back f: the same header fields,
\* options and data.
C2_RoundTrip ==
    (pc = "redecoded" /\ SelfConsistent(kind, orig)) =>
        /\ res.tag = "Some"
        /\ frame = orig

\* A self-consistent TCP segment with options and data went through
\* to_bytes and from_bytes.
C2_Witness ==
    /\ pc = "redecoded"
    /\ kind = "Tcp"
    /\ SelfConsistent(kind, orig)
    /\ Len(orig.options) > 0
    /\ Len(orig.data) > 0
    /\ frame = orig

\* C3: Ipv4::from_bytes(b) is Some exactly when |b| >= 20 and
\* 20 <= h <= t <= |b|, h the low nibble of b[0] times 4 and t the big-endian
\* total length at offsets 2..3, whatever the other bytes are; then
\* options = b[20..h] and data = b[h..t]; 0x45 gives h = 20; a low nibble
\* below 5 is rejected.
C3_Ipv4Acceptance ==
    (pc = "decoded" /\ kind = "Ipv4") =>
        LET n == Len(bytes)
            h == RawIpv4Hlen(bytes)
            t == RawIpv4Total(bytes)
        IN  /\ res.tag = "Some" <=>
                  (n >= 20 /\ 20 <= h /\ h <= t /\ t <= n)
            /\ res.tag = "Some" =>
                  /\ frame.options = SubSeq(bytes, 21, h)
                  /\ frame.data = SubSeq(bytes, h + 1, t)
            /\ (res.tag = "Some" /\ bytes[1] = 69) =>
                  /\ frame.options = <<>>
                  /\ frame.data = SubSeq(bytes, 21, t)
            /\ (n >= 1 /\ bytes[1] % 16 < 5) => res.tag = "None"

\* An IPv4 buffer with one word of options, one byte of data and bytes after
\* the total length was accepted.
C3_Witness ==
    /\ pc = "decoded"
    /\ kind = "Ipv4"
    /\ res.tag = "Some"
    /\ Len(frame.options) = 4
    /\ Len(frame.data) = 1
    /\ Len(bytes) > RawIpv4Total(bytes)
    /\ bytes[1] \div 16 # 4

\* C4: Tcp::from_bytes(b) is Some exactly when |b| >= 20 and 20 <= h <= |b|,
\* h the data offset (the high nibble of the byte at offset 12) times 4; then
\* options = b[20..h] and data = b[h..|b|].
C4_TcpAcceptance ==
    (pc = "decoded" /\ kind = "Tcp") =>
        LET n == Len(bytes)
            h == RawTcpHlen(bytes)
        IN  /\ res.tag = "Some" <=> (n >= 20 /\ 20 <= h /\ h <= n)
            /\ res.tag = "Some" =>
                  /\ frame.options = SubSeq(bytes, 21, h)
                  /\ frame.data = SubSeq(bytes, h + 1, n)

\* A TCP buffer with one word of options and two bytes of data was accepted.
C4_Witness ==
    /\ pc = "decoded"
    /\ kind = "Tcp"
    /\ res.tag = "Some"
    /\ Len(frame.options) = 4
    /\ Len(frame.data) = 2

\* C5: Udp::from_bytes(b) is Some exactly when |b| >= 8 and 8 <= L <= |b|,
\* L the big-endian length field at offsets 4..5; then data = b[8..L], which
\* has L - 8 bytes.
C5_UdpAcceptance ==
    (pc = "decoded" /\ kind = "Udp") =>
        LET n == Len(bytes)
            L == RawUdpLength(bytes)
        IN  /\ res.tag = "Some" <=> (n >= 8 /\ 8 <= L /\ L <= n)
            /\ res.tag = "Some" =>
                  /\ frame.data = SubSeq(bytes, 9, L)
                  /\ Len(frame.data) = L - 8

\* A UDP buffer longer than its length field was accepted with data.
C5_Witness ==
    /\ pc = "decoded"
    /\ kind = "Udp"
    /\ res.tag = "Some"
    /\ Len(frame.data) = 2
    /\ Len(bytes) > RawUdpLength(bytes)

-----------------------------------------------------------------------------
(* Inputs of the checksum functions.                                       *)

Regions ==
    { Fill(n, s) : n \in 0 .. MaxRegion, s \in Seeds }
        \cup { [i \in 1 .. n |-> 255] : n \in 0 .. MaxRegion }

\* Every region of up to three bytes over the bytes at the ends and the middle
\* of the range.
EdgeBytes == {0, 1, 127, 128, 255}
EdgeRegions == UNION { [1 .. n -> EdgeBytes] : n \in 0 .. 3 }

LowParts == (0 .. MaxLow) \cup ((65535 - MaxLow) .. 65535)
HighParts == (0 .. MaxHigh) \cup ((32767 - MaxHigh) .. 32767)
RawSums == { hi * 65536 + lo : hi \in HighParts, lo \in LowParts }

MkUdp(src, dst, len, checksum, data) ==
    [header |-> [src |-> N16New(src), dst |-> N16New(dst), len |-> N16New(len),
                 checksum |-> [data |-> checksum]],
     options |-> <<>>, data |-> data]

Datagram(f, src_addr, dst_addr) ==
    [dgram |-> f, src_addr |-> src_addr, dst_addr |-> dst_addr]

\* The datagrams of the test upd_header_computation.
TestVectors ==
    { Datagram(MkUdp(54110, 25000, 10, 50843, <<49, 10>>), Loopback, Loopback),
      Datagram(MkUdp(54110, 25000, 10, 50794, <<98, 10>>), Loopback, Loopback),
      Datagram(MkUdp(54110, 25000, 13, 1791, <<97, 97, 98, 98, 10>>),
               Loopback, Loopback),
      Datagram(MkUdp(0, 1234, 13, 10434, <<102, 117, 98, 97, 114>>),
               Loopback, Loopback) }

\* The byte at 1-based position i of a region counts once at an odd position
\* and 256 times at an even one.
RECURSIVE WeightedSum(_, _)
WeightedSum(b, i) ==
    IF i = 0 THEN 0
    ELSE WeightedSum(b, i - 1) + b[i] * (IF i % 2 = 1 THEN 1 ELSE 256)

\* The sum with every carry out of the low 16 bits added back in.
EndAround(s) == IF s = 0 THEN 0 ELSE ((s - 1) % 65535) + 1

\* The checksum a valid datagram carries: over the pseudo header, the header
\* with a zero checksum field, and the data, as one run of bytes.
RefUdpChecksum(a) ==
    LET h == a.dgram.header
        all == a.src_addr.bytes \o a.dst_addr.bytes \o <<0, 17>> \o h.len
                   \o h.src \o h.dst \o h.len \o <<0, 0>> \o a.dgram.data
        c == 65535 - EndAround(WeightedSum(all, Len(all)))
    IN  IF c = 0 THEN 65535 ELSE c

SrcAddr(far, s) == IF far THEN [bytes |-> Fill(4, s)] ELSE Loopback

\* Datagrams with a stored checksum that is zero, right, off by one, or fixed.
Datagrams ==
    TestVectors \cup
    { Datagram(MkUdp(sp, 25000, 8 + d + e, ck, Fill(d, s)), SrcAddr(far, s),
               Loopback) :
        sp \in {0, 28453, 54110}, d \in DataLens, e \in {0, 1}, s \in Seeds,
        far \in BOOLEAN, ck \in {0, 1, 65535} }
    \cup
    { [a EXCEPT !.dgram.header.checksum.data = (RefUdpChecksum(a) + e) % 65536] :
        a \in { Datagram(MkUdp(sp, 25000, 8 + d, 0, Fill(d, s)),
                          SrcAddr(far, s), Loopback) :
                  sp \in {0, 28453, 54110}, d \in DataLens, s \in Seeds,
                  far \in BOOLEAN },
        e \in {0, 1} }
    \cup
    { Datagram(MkUdp(28453, 25000, 10, ck, <<49, 10>>), Loopback, Loopback) :
        ck \in {0, 1, 65535} }

\* Constructed frames with the checksum field as built, zero, or all ones.
ChecksumFrames(k) ==
    BuiltFrames(k) \cup
    { [f EXCEPT !.header.checksum.data = ck] :
        f \in BuiltFrames(k), ck \in {0, 65535} }

\* A TCP segment with the addresses of the IPv4 layer around it.
Segments ==
    { [seg |-> f, src_addr |-> SrcAddr(far, s), dst_addr |-> Loopback] :
        f \in ChecksumFrames("Tcp"), far \in BOOLEAN, s \in Seeds }

-----------------------------------------------------------------------------
(* The checksum scenarios: one call of a function on one input.            *)

IdleCodec ==
    /\ kind = "none"
    /\ bytes = <<>>
    /\ frame = NoFrame
    /\ res = NewRes
    /\ orig = <<>>

InitSum ==
    /\ IdleThreads
    /\ IdlePing
    /\ IdleCodec
    /\ pc = "call"
    /\ out = <<>>
    /\ \/ task = "sum" /\ arg \in Regions \cup EdgeRegions
       \/ task = "compile" /\ arg \in RawSums
       \/ task = "sum_parts" /\ arg \in Regions \X Regions
       \/ task = "is_valid" /\ arg \in Datagrams
       \/ task = "ipv4_checksum" /\ arg \in ChecksumFrames("Ipv4")
       \/ task = "tcp_checksum" /\ arg \in Segments
       \/ task = "wire_checksum" /\ arg \in Regions \cup EdgeRegions
       \/ task = "ipv4_verify" /\ arg \in ChecksumFrames("Ipv4")
       \/ task = "tcp_verify" /\ arg \in Segments

Return(value) ==
    /\ pc = "call"
    /\ out' = value
    /\ pc' = "return"
    /\ UNCHANGED <<kind, bytes, frame, res, orig, task, arg, threads, ping>>

CallSum ==
    /\ task = "sum"
    /\ Return(ChecksumSum(arg))

CallCompile ==
    /\ task = "compile"
    /\ Return(ChecksumCompile(arg))

\* The checksum of two regions summed one by one, as Tcp::checksum and
\* Udp::is_valid sum their regions, beside the checksum of the two regions
\* summed as one.
CallSumParts ==
    /\ task = "sum_parts"
    /\ Return([parts |-> ChecksumCompile(ChecksumSum(arg[1]).sum
                                         + ChecksumSum(arg[2]).sum),
               whole |-> ChecksumCompile(ChecksumSum(arg[1] \o arg[2]).sum)])

CallIsValid ==
    /\ task = "is_valid"
    /\ Return(UdpIsValid(arg.dgram, arg.src_addr, arg.dst_addr))

CallIpv4Checksum ==
    /\ task = "ipv4_checksum"
    /\ Return(Ipv4Checksum(arg))

CallTcpChecksum ==
    /\ task = "tcp_checksum"
    /\ Return(TcpChecksum(arg.seg, arg.src_addr, arg.dst_addr))

\* The checksum of a region as the code puts it on the wire: computed by
\* compile(sum(..)), stored in a Checksum field, and written with the header's
\* memory by to_bytes.
CallWireChecksum ==
    /\ task = "wire_checksum"
    /\ Return(NativeBytes(ChecksumCompile(ChecksumSum(arg).sum)))

\* checksum(), then the compile of the sums over the frame as it is then, and
\* checksum() once more.
CallIpv4Verify ==
    /\ task = "ipv4_verify"
    /\ LET after == Ipv4Checksum(arg)
       IN  Return([after |-> after, verify |-> Ipv4CompiledSum(after),
                   again |-> Ipv4Checksum(after)])

CallTcpVerify ==
    /\ task = "tcp_verify"
    /\ LET after == TcpChecksum(arg.seg, arg.src_addr, arg.dst_addr)
       IN  Return([after |-> after,
                   verify |-> TcpCompiledSum(after, arg.src_addr, arg.dst_addr),
                   again |-> TcpChecksum(after, arg.src_addr, arg.dst_addr)])

NextSum ==
    \/ CallSum
    \/ CallCompile
    \/ CallSumParts
    \/ CallIsValid
    \/ CallIpv4Checksum
    \/ CallTcpChecksum
    \/ CallWireChecksum
    \/ CallIpv4Verify
    \/ CallTcpVerify

SpecSum == InitSum /\ [][NextSum]_vars

-----------------------------------------------------------------------------
(* Properties of the checksum functions.                                   *)

Returned(t) == task = t /\ pc = "return"

\* C6: with a nonzero stored checksum, Udp::is_valid is true exactly when the
\* stored value is the checksum over the addresses, the bytes 0x00 0x11, the
\* length field, the header with a zero checksum field and the data, with
\* 0xFFFF in place of a computed 0; the four test vectors are valid.
C6_UdpIsValid ==
    Returned("is_valid") =>
        LET stored == arg.dgram.header.checksum.data
        IN  /\ stored # 0 => (out <=> stored = RefUdpChecksum(arg))
            /\ arg \in TestVectors => out = TRUE

\* A datagram whose checksum computes to zero and which carries 0xFFFF was
\* found valid.
C6_Witness ==
    /\ Returned("is_valid")
    /\ arg = Datagram(MkUdp(28453, 25000, 10, 65535, <<49, 10>>),
                      Loopback, Loopback)
    /\ out = TRUE

\* C7: a datagram whose stored checksum is 0 is valid, whatever the
\* addresses, ports, length field and data.
C7_ZeroChecksumBypass ==
    (Returned("is_valid") /\ arg.dgram.header.checksum.data = 0) => out = TRUE

\* A datagram with data, a wrong length field and a zero checksum was found
\* valid.
C7_Witness ==
    /\ Returned("is_valid")
    /\ arg.dgram.header.checksum.data = 0
    /\ Len(arg.dgram.data) = 3
    /\ N16Get(arg.dgram.header.len) # 8 + Len(arg.dgram.data)
    /\ arg.src_addr # Loopback
    /\ out = TRUE

\* C8: Checksum::compile(s) returns 0xFFFF - f(s), f(s) the sum with its
\* carries folded in until none is left; for s below 2^16 that is 0xFFFF - s;
\* and compile(s) = compile(f(s)).
C8_Compile ==
    Returned("compile") =>
        /\ out = 65535 - EndAround(arg)
        /\ arg < 65536 => out = 65535 - arg
        /\ ChecksumCompile(EndAround(arg)) = out

\* A sum that needs two fold passes (0x1FFFF) was compiled.
C8_Witness ==
    /\ Returned("compile")
    /\ arg = 131071
    /\ out = 65534

\* C9: Checksum::sum over n bytes reads exactly the offsets 0 .. n-1 and
\* returns the unfolded sum of the floor(n/2) native 16-bit words plus, for
\* odd n, the last byte; for n = 0 it returns 0.
C9_Sum ==
    Returned("sum") =>
        /\ out.reads = 0 .. (Len(arg) - 1)
        /\ out.sum = WeightedSum(arg, Len(arg))
        /\ Len(arg) = 0 => out.sum = 0

\* A region of odd length whose sum does not fit 16 bits was summed.
C9_Witness ==
    /\ Returned("sum")
    /\ Len(arg) = 5
    /\ out.sum > 65535

\* C10 as stated: for regions a and b of any lengths,
\* compile(sum(a) + sum(b)) = compile(sum(a ++ b)).
C10_AdditiveAnyLengths ==
    Returned("sum_parts") => out.parts = out.whole

\* C10 as amended: for a region a of even length and a region b of any
\* length, compile(sum(a) + sum(b)) = compile(sum(a ++ b)).
C10_AdditiveEvenPrefix ==
    (Returned("sum_parts") /\ Len(arg[1]) % 2 = 0) => out.parts = out.whole

\* A region of four bytes and a region of three bytes were summed one by one
\* and as one.
C10_Witness ==
    /\ Returned("sum_parts")
    /\ Len(arg[1]) = 4
    /\ Len(arg[2]) = 3
    /\ out.parts = out.whole

\* The bytes of an IPv4 header written field by field, the checksum field zero.
RefIpv4HeaderZeroed(h) ==
    <<h.ver_hlen, h.services, h.len[1], h.len[2], h.id[1], h.id[2],
      h.flags_fragment[1], h.flags_fragment[2], h.ttl, h.proto, 0, 0>>
        \o h.src.bytes \o h.dst.bytes

\* C11: after Ipv4::checksum(), header.checksum is
\* compile(sum(the 20 fixed header bytes with a zero checksum field)): it
\* depends neither on the field's previous value nor on the options or data.
C11_Ipv4Checksum ==
    Returned("ipv4_checksum") =>
        LET zeroed == RefIpv4HeaderZeroed(arg.header)
        IN  out.header.checksum.data
                = 65535 - EndAround(WeightedSum(zeroed, Len(zeroed)))

\* A frame with options, data and a nonzero checksum field was checksummed.
C11_Witness ==
    /\ Returned("ipv4_checksum")
    /\ arg.header.checksum.data = 65535
    /\ Len(arg.options) > 0
    /\ Len(arg.data) > 0
    /\ out.header.checksum.data \notin {0, 65535}

\* The bytes of a TCP header written field by field, the checksum field zero.
RefTcpHeaderZeroed(h) ==
    h.src \o h.dst \o h.sequence \o h.ack_num \o h.flags \o h.window_size
        \o <<0, 0>> \o h.urgent_pointer

RefSum(region) == WeightedSum(region, Len(region))

\* C12: after Tcp::checksum(src, dst), header.checksum is the compile, folded
\* once at the end, of sum(src) + sum(dst) + sum(protocol 6 big-endian)
\* + sum(20 + |options| + |data| big-endian) + sum(the header with a zero
\* checksum field) + sum(options) + sum(data), whatever the field held before.
C12_TcpChecksum ==
    Returned("tcp_checksum") =>
        LET f == arg.seg
            n == 20 + Len(f.options) + Len(f.data)
        IN  out.header.checksum.data
                = 65535 - EndAround(
                      RefSum(arg.src_addr.bytes) + RefSum(arg.dst_addr.bytes)
                      + RefSum(<<0, 6>>) + RefSum(<<n \div 256, n % 256>>)
                      + RefSum(RefTcpHeaderZeroed(f.header))
                      + RefSum(f.options) + RefSum(f.data))

\* A segment with options, an odd number of data bytes and a nonzero checksum
\* field was checksummed.
C12_Witness ==
    /\ Returned("tcp_checksum")
    /\ arg.seg.header.checksum.data = 65535
    /\ Len(arg.seg.options) = 4
    /\ Len(arg.seg.data) = 3
    /\ arg.src_addr # Loopback
    /\ out.header.checksum.data \notin {0, 65535}

\* The sum of the big-endian 16-bit words of a region, an odd last byte padded
\* with a zero low-order octet: the byte at 1-based position i counts 256
\* times at an odd position and once at an even one.
RECURSIVE BigEndianSum(_, _)
BigEndianSum(b, i) ==
    IF i = 0 THEN 0
    ELSE BigEndianSum(b, i - 1) + b[i] * (IF i % 2 = 1 THEN 256 ELSE 1)

\* C13: the two bytes that compile(sum(region)), computed with native
\* little-endian loads and stored in native order, puts on the wire are the
\* two bytes of the RFC 1071 checksum computed over big-endian words and
\* stored big-endian.
C13_ByteOrderSymmetry ==
    Returned("wire_checksum") =>
        LET c == 65535 - EndAround(BigEndianSum(arg, Len(arg)))
        IN  out = <<c \div 256, c % 256>>

\* A region of odd length whose sum carries out of 16 bits, with two
\* different checksum bytes, was checksummed.
C13_Witness ==
    /\ Returned("wire_checksum")
    /\ Len(arg) = 5
    /\ WeightedSum(arg, Len(arg)) > 65535
    /\ out[1] # out[2]

\* The 16-bit big-endian number at a 0-based offset of a buffer.
Be16At(b, off) == b[off + 1] * 256 + b[off + 2]

\* The header sizes of the layout table.
TableHeaderSize(k) ==
    CASE k = "Arp" -> 28
      [] k = "EthernetII" -> 14
      [] k = "Ipv4" -> 20
      [] k = "Tcp" -> 20
      [] k = "Udp" -> 8

\* The header fields at the offsets of the layout table, every n16 field with
\* its host value most-significant byte first, and the fields the constructed
\* frames set to known host values (hardware type 1, protocol type 0x0800,
\* port 54110, window 65535, flags 0x4000) with the bytes of those values.
TableLayout(k, b, h) ==
    CASE k = "Arp" ->
           /\ Be16At(b, 0) = N16Get(h.htype) /\ SubSeq(b, 1, 2) = <<0, 1>>
           /\ Be16At(b, 2) = N16Get(h.ptype) /\ SubSeq(b, 3, 4) = <<8, 0>>
           /\ b[5] = h.hlen /\ b[6] = h.plen
           /\ Be16At(b, 6) = N16Get(h.oper)
           /\ SubSeq(b, 9, 14) = h.src_mac.bytes
           /\ SubSeq(b, 15, 18) = h.src_ip.bytes
           /\ SubSeq(b, 19, 24) = h.dst_mac.bytes
           /\ SubSeq(b, 25, 28) = h.dst_ip.bytes
      [] k = "EthernetII" ->
           /\ SubSeq(b, 1, 6) = h.dst.bytes
           /\ SubSeq(b, 7, 12) = h.src.bytes
           /\ Be16At(b, 12) = N16Get(h.ethertype) /\ b[13] = 8
      [] k = "Ipv4" ->
           /\ b[1] = h.ver_hlen /\ b[2] = h.services
           /\ Be16At(b, 2) = N16Get(h.len) /\ b[3] = 0
           /\ Be16At(b, 4) = N16Get(h.id) /\ b[5] = 18
           /\ Be16At(b, 6) = N16Get(h.flags_fragment)
           /\ SubSeq(b, 7, 8) = <<64, 0>>
           /\ b[9] = h.ttl /\ b[10] = h.proto
           /\ SubSeq(b, 13, 16) = h.src.bytes
           /\ SubSeq(b, 17, 20) = h.dst.bytes
      [] k = "Tcp" ->
           /\ Be16At(b, 0) = N16Get(h.src) /\ SubSeq(b, 1, 2) = <<211, 94>>
           /\ Be16At(b, 2) = N16Get(h.dst) /\ b[3] = 0
           /\ SubSeq(b, 5, 8) = h.sequence
           /\ SubSeq(b, 9, 12) = h.ack_num
           /\ Be16At(b, 12) = N16Get(h.flags)
           /\ Be16At(b, 14) = N16Get(h.window_size)
           /\ SubSeq(b, 15, 16) = <<255, 255>>
           /\ Be16At(b, 18) = N16Get(h.urgent_pointer)
      [] k = "Udp" ->
           /\ Be16At(b, 0) = N16Get(h.src) /\ SubSeq(b, 1, 2) = <<211, 94>>
           /\ Be16At(b, 2) = N16Get(h.dst) /\ b[3] = 97
           /\ Be16At(b, 4) = N16Get(h.len) /\ b[5] = 0

\* C14: to_bytes of every frame is the fixed header, then the options, then
\* the data, with nothing between them: H + |options| + |data| bytes,
\* H = 28, 14, 20, 20, 8; the header fields lie at the offsets of the layout
\* table without padding, n16 and n32 fields most-significant byte first.
C14_ToBytesLayout ==
    pc = "encoded" =>
        LET H == TableHeaderSize(kind)
            o == Len(frame.options)
        IN  /\ Len(bytes) = H + o + Len(frame.data)
            /\ TableLayout(kind, bytes, frame.header)
            /\ SubSeq(bytes, H + 1, H + o) = frame.options
            /\ SubSeq(bytes, H + o + 1, Len(bytes)) = frame.data

\* An Ethernet II frame with data was encoded.
C14_Witness ==
    /\ pc = "encoded"
    /\ kind = "EthernetII"
    /\ Len(frame.data) = 3
    /\ Len(bytes) = 17

\* C25: where from_bytes(b) succeeds, to_bytes of the decoded frame is b for
\* Arp, EthernetII and Tcp, the first total-length bytes of b for Ipv4 and
\* the first length bytes of b for Udp; what lies beyond is dropped.
C25_ReencodeIsPrefix ==
    pc = "reencoded" =>
        bytes = CASE kind = "Ipv4" -> SubSeq(orig, 1, RawIpv4Total(orig))
                  [] kind = "Udp" -> SubSeq(orig, 1, RawUdpLength(orig))
                  [] OTHER -> orig

\* An IPv4 buffer with options, data and bytes beyond its total length was
\* decoded and encoded again.
C25_Witness ==
    /\ pc = "reencoded"
    /\ kind = "Ipv4"
    /\ Len(frame.options) = 4
    /\ Len(frame.data) > 0
    /\ Len(bytes) < Len(orig)

\* The bytes of a header written field by field, the checksum field as it is
\* stored, low byte first.
RefIpv4HeaderStored(h) ==
    <<h.ver_hlen, h.services, h.len[1], h.len[2], h.id[1], h.id[2],
      h.flags_fragment[1], h.flags_fragment[2], h.ttl, h.proto,
      h.checksum.data % 256, h.checksum.data \div 256>>
        \o h.src.bytes \o h.dst.bytes

RefTcpHeaderStored(h) ==
    h.src \o h.dst \o h.sequence \o h.ack_num \o h.flags \o h.window_size
        \o <<h.checksum.data % 256, h.checksum.data \div 256>>
        \o h.urgent_pointer

\* C24: right after Ipv4::checksum(), compile(sum(the 20 header bytes with
\* the stored checksum)) is 0; right after Tcp::checksum(src, dst), the
\* compile of the same pseudo-header, header (with the stored checksum),
\* options and data sums is 0: the sums add up to all ones.
C24_VerifiesToZero ==
    /\ Returned("ipv4_verify") =>
           /\ out.verify = 0
           /\ EndAround(RefSum(RefIpv4HeaderStored(out.after.header))) = 65535
    /\ Returned("tcp_verify") =>
           LET f == out.after
               n == 20 + Len(f.options) + Len(f.data)
           IN  /\ out.verify = 0
               /\ EndAround(
                      RefSum(arg.src_addr.bytes) + RefSum(arg.dst_addr.bytes)
                      + RefSum(<<0, 6>>) + RefSum(<<n \div 256, n % 256>>)
                      + RefSum(RefTcpHeaderStored(f.header))
                      + RefSum(f.options) + RefSum(f.data)) = 65535

\* A segment with options and an odd number of data bytes was checksummed
\* and verified.
C24_Witness ==
    /\ Returned("tcp_verify")
    /\ Len(arg.seg.options) = 4
    /\ Len(arg.seg.data) = 3
    /\ out.after.header.checksum.data \notin {0, 65535}
    /\ out.verify = 0

\* C30: Ipv4::checksum() and Tcp::checksum(src, dst) change header.checksum
\* only, and a second call (with the same addresses) leaves the frame as it
\* was after the first.
C30_ChecksumFrameEffect ==
    /\ Returned("ipv4_verify") =>
           /\ [out.after EXCEPT !.header.checksum = arg.header.checksum] = arg
           /\ out.again = out.after
    /\ Returned("tcp_verify") =>
           /\ [out.after EXCEPT !.header.checksum = arg.seg.header.checksum]
                  = arg.seg
           /\ out.again = out.after

\* A frame with options, data and a stale checksum was checksummed twice.
C30_Witness ==
    /\ Returned("ipv4_verify")
    /\ Len(arg.options) > 0
    /\ Len(arg.data) > 0
    /\ arg.header.checksum.data = 65535
    /\ out.after.header.checksum.data # 65535
    /\ out.again = out.after

-----------------------------------------------------------------------------
(* Decoding and the checksum bytes.                                        *)

\* The offset of the two checksum bytes in the buffer of a frame type.
ChecksumOffset(k) ==
    CASE k = "Ipv4" -> 10
      [] k = "Tcp" -> 16
      [] k = "Udp" -> 6

\* The checksum bytes that make the IPv4 header of a buffer sum to zero.
MatchingPair(b) ==
    IF Len(b) >= 20
    THEN NativeBytes(ChecksumCompile(
             ChecksumSum(Put16(SubSeq(b, 1, 20), 10, 0)).sum))
    ELSE <<0, 0>>

\* The buffers that differ from a buffer in its checksum bytes only.
Siblings(k, b) ==
    { Put(Put(b, ChecksumOffset(k), p[1]), ChecksumOffset(k) + 1, p[2]) :
          p \in { <<0, 0>>, <<255, 255>>, <<1, 2>>, <<190, 239>>,
                  MatchingPair(b) } }

\* C20: decoding does not depend on the checksum: for two buffers that differ
\* only in the checksum bytes (IPv4 10..11, TCP 16..17, UDP 6..7), from_bytes
\* fails on both or succeeds on both, and the decoded frames are equal in
\* every field but the checksum.
C20_ChecksumIndependence ==
    (pc = "decoded" /\ kind \in {"Ipv4", "Tcp", "Udp"}) =>
        \A b2 \in Siblings(kind, bytes) :
            LET r2 == FromBytes(kind, b2)
            IN  /\ r2.tag = res.tag
                /\ res.tag = "Some" =>
                       /\ [r2.frame EXCEPT !.header.checksum =
                               frame.header.checksum] = frame
                       /\ r2.frame.header.checksum.data =
                              NativeU16(b2[ChecksumOffset(kind) + 1],
                                        b2[ChecksumOffset(kind) + 2])

\* An IPv4 buffer with options and data was decoded, and the sibling with the
\* matching header checksum is another buffer.
C20_Witness ==
    /\ pc = "decoded"
    /\ kind = "Ipv4"
    /\ res.tag = "Some"
    /\ Len(frame.options) = 4
    /\ Len(frame.data) = 2
    /\ SubSeq(bytes, 11, 12) # MatchingPair(bytes)

-----------------------------------------------------------------------------
(* Address text.  A string is the sequence of its characters.               *)

DecDigits == <<"0", "1", "2", "3", "4", "5", "6", "7", "8", "9">>
LowerLetters ==
    <<"a", "b", "c", "d", "e", "f", "g", "h", "i", "j", "k", "l", "m",
      "n", "o", "p", "q", "r", "s", "t", "u", "v", "w", "x", "y", "z">>
UpperLetters ==
    <<"A", "B", "C", "D", "E", "F", "G", "H", "I", "J", "K", "L", "M",
      "N", "O", "P", "Q", "R", "S", "T", "U", "V", "W", "X", "Y", "Z">>

\* The position of a character in a table, 0 when it is not there.
IndexOf(table, c) ==
    IF \E i \in DOMAIN table : table[i] = c
    THEN CHOOSE i \in DOMAIN table : table[i] = c
    ELSE 0

\* char::to_digit: the value of a digit or letter when it is below the radix,
\* -1 for None.
ToDigit(c, radix) ==
    LET d == IF IndexOf(DecDigits, c) > 0 THEN IndexOf(DecDigits, c) - 1
             ELSE IF IndexOf(LowerLetters, c) > 0
                  THEN IndexOf(LowerLetters, c) + 9
             ELSE IF IndexOf(UpperLetters, c) > 0
                  THEN IndexOf(UpperLetters, c) + 9
             ELSE radix
    IN  IF d < radix THEN d ELSE -1

Ok(value) == [tag |-> "Ok", value |-> value]
Err == [tag |-> "Err"]

\* The digit loop of u8::from_str_radix: checked multiply, checked add.
RECURSIVE AccumulateU8(_, _, _)
AccumulateU8(digits, radix, result) ==
    IF digits = <<>> THEN Ok(result)
    ELSE LET x == ToDigit(Head(digits), radix)
         IN  IF x < 0 THEN Err
             ELSE IF result * radix > 255 THEN Err
             ELSE IF result * radix + x > 255 THEN Err
             ELSE AccumulateU8(Tail(digits), radix, result * radix + x)

\* u8::from_str_radix: an empty string is an error; one leading '+' is
\* skipped; an unsigned type takes no '-'.
FromStrRadixU8(src, radix) ==
    IF src = <<>> THEN Err
    ELSE LET digits == IF Head(src) = "+" THEN Tail(src) ELSE src
         IN  IF digits = <<>> THEN Err ELSE AccumulateU8(digits, radix, 0)

\* str::split on a character: the parts between the delimiters, one part for
\* a string without any, the empty string included.
RECURSIVE SplitLoop(_, _, _)
SplitLoop(rest, delimeter, part) ==
    IF rest = <<>> THEN << part >>
    ELSE IF Head(rest) = delimeter
         THEN << part >> \o SplitLoop(Tail(rest), delimeter, <<>>)
         ELSE SplitLoop(Tail(rest), delimeter, Append(part, Head(rest)))

Split(string, delimeter) == SplitLoop(string, delimeter, <<>>)

MacDefault == [bytes |-> <<0, 0, 0, 0, 0, 0>>]
NoMac == [tag |-> "None"]
SomeAddr(addr) == [tag |-> "Some", addr |-> addr]

\* The loop of try_parse_with_delimeter over the parts that are left.
RECURSIVE MacParseLoop(_, _, _)
MacParseLoop(parts, segments, addr) ==
    IF parts = <<>>
    THEN IF segments = Len(addr.bytes) THEN SomeAddr(addr) ELSE NoMac
    ELSE IF segments >= Len(addr.bytes) THEN NoMac
         ELSE LET b == FromStrRadixU8(Head(parts), 16)
              IN  IF b.tag = "Ok"
                  THEN MacParseLoop(Tail(parts), segments + 1,
                           [addr EXCEPT !.bytes[segments + 1] = b.value])
                  ELSE NoMac

TryParseWithDelimeter(string, delimeter) ==
    MacParseLoop(Split(string, delimeter), 0, MacDefault)

MacFromStr(string) ==
    LET colon == TryParseWithDelimeter(string, ":")
    IN  IF colon.tag = "Some" THEN colon.addr
        ELSE LET dash == TryParseWithDelimeter(string, "-")
             IN  IF dash.tag = "Some" THEN dash.addr ELSE MacDefault

\* {:X}: the upper-case hexadecimal digits of a byte, no leading zeros.
UpperHexDigit(d) == IF d < 10 THEN DecDigits[d + 1] ELSE UpperLetters[d - 9]
RECURSIVE UpperHex(_)
UpperHex(b) ==
    IF b < 16 THEN << UpperHexDigit(b) >>
    ELSE Append(UpperHex(b \div 16), UpperHexDigit(b % 16))

\* The 0 flag with a width: zeros in front up to the width.
RECURSIVE ZeroPad(_, _)
ZeroPad(text, width) ==
    IF Len(text) >= width THEN text ELSE ZeroPad(<<"0">> \o text, width)

\* The address formatted without the width.
MacToStringNoPad(m) ==
    UpperHex(m.bytes[1]) \o <<"-">> \o UpperHex(m.bytes[2]) \o <<"-">>
    \o UpperHex(m.bytes[3]) \o <<"-">> \o UpperHex(m.bytes[4]) \o <<"-">>
    \o UpperHex(m.bytes[5]) \o <<"-">> \o UpperHex(m.bytes[6])

MacToString(m) ==
    ZeroPad(UpperHex(m.bytes[1]), 2) \o <<"-">>
    \o ZeroPad(UpperHex(m.bytes[2]), 2) \o <<"-">>
    \o ZeroPad(UpperHex(m.bytes[3]), 2) \o <<"-">>
    \o ZeroPad(UpperHex(m.bytes[4]), 2) \o <<"-">>
    \o ZeroPad(UpperHex(m.bytes[5]), 2) \o <<"-">>
    \o ZeroPad(UpperHex(m.bytes[6]), 2)

Ipv4Null == [bytes |-> <<0, 0, 0, 0>>]

\* A from_str that stops at the first segment that is not a u8.
RECURSIVE Ipv4ParseLoopStop(_, _, _)
Ipv4ParseLoopStop(parts, i, addr) ==
    IF parts = <<>> \/ i > 3 THEN addr
    ELSE LET r == FromStrRadixU8(Head(parts), 10)
         IN  IF r.tag = "Ok"
             THEN Ipv4ParseLoopStop(Tail(parts), i + 1,
                      [addr EXCEPT !.bytes[i + 1] = r.value])
             ELSE addr
Ipv4FromStrStop(string) == Ipv4ParseLoopStop(Split(string, "."), 0, Ipv4Null)

\* The loop of Ipv4Addr::from_str over the parts that are left: parse::<u8>
\* is the radix-10 parse, an error counts as 0, the fifth part breaks.
RECURSIVE Ipv4ParseLoop(_, _, _)
Ipv4ParseLoop(parts, i, addr) ==
    IF parts = <<>> THEN addr
    ELSE LET r == FromStrRadixU8(Head(parts), 10)
             octet == IF r.tag = "Ok" THEN r.value ELSE 0
         IN  IF i \in 0 .. 3
             THEN Ipv4ParseLoop(Tail(parts), i + 1,
                      [addr EXCEPT !.bytes[i + 1] = octet])
             ELSE addr

Ipv4FromStr(string) == Ipv4ParseLoop(Split(string, "."), 0, Ipv4Null)

\* {}: the decimal digits of a byte.
RECURSIVE DecimalText(_)
DecimalText(b) ==
    IF b < 10 THEN << DecDigits[b + 1] >>
    ELSE Append(DecimalText(b \div 10), DecDigits[(b % 10) + 1])

Ipv4ToString(a) ==
    DecimalText(a.bytes[1]) \o <<".">> \o DecimalText(a.bytes[2]) \o <<".">>
    \o DecimalText(a.bytes[3]) \o <<".">> \o DecimalText(a.bytes[4])

-----------------------------------------------------------------------------
(* The value types: network-order integers and addresses.  One call of one *)
(* function per behaviour, on the variables of the checksum calls.         *)

Values16 == {0, 1, 255, 256, 257, 4660, 32767, 32768, 43981, 65280, 65535}
Values32 ==
    {0, 1, 255, 256, 65535, 65536, 16909060, 305419896, 2147483647}
Held16 == {N16New(0), N16New(65535), <<1, 2>>}
Held32 == {N32New(0), N32New(2147483647), <<1, 2, 3, 4>>}

\* Addresses: every combination of three octets, and strides through the
\* octet values.
MacAddrs ==
    { [bytes |-> b] : b \in [1 .. 6 -> {0, 10, 255}] }
    \cup { [bytes |-> [i \in 1 .. 6 |-> (s + i * k) % 256]] :
               s \in 0 .. 15, k \in {1, 17, 43} }
    \cup { [bytes |-> <<1, 35, 69, 103, 137, 171>>] }

\* The texts given to the MAC parser: groups of characters and the delimiters
\* between them.
HexTable ==
    <<"0", "1", "2", "3", "4", "5", "6", "7",
      "8", "9", "A", "B", "C", "D", "E", "F">>
LowerHexTable ==
    <<"0", "1", "2", "3", "4", "5", "6", "7",
      "8", "9", "a", "b", "c", "d", "e", "f">>

RECURSIVE Join(_, _)
Join(groups, delims) ==
    IF Len(groups) = 1 THEN groups[1]
    ELSE groups[1] \o << delims[1] >> \o Join(Tail(groups), Tail(delims))

TextOf(t) == Join(t.groups, t.delims)

\* An octet in one or two hexadecimal digits.
Spelling(b, upper, pad) ==
    LET table == IF upper THEN HexTable ELSE LowerHexTable
    IN  IF b < 16 /\ ~pad THEN << table[b + 1] >>
        ELSE << table[(b \div 16) + 1], table[(b % 16) + 1] >>

SpelledGroups(octets, upper, pad) ==
    [i \in 1 .. Len(octets) |-> Spelling(octets[i], upper, pad)]

Uniform(d, n) == [i \in 1 .. n |-> d]

TestOctets == <<1, 35, 69, 103, 137, 171>>
SpelledOctets ==
    { TestOctets, <<0, 0, 0, 0, 0, 0>>, <<255, 255, 255, 255, 255, 255>>,
      <<10, 11, 12, 13, 14, 15>>, <<0, 9, 16, 160, 171, 255>> }
TestGroups == SpelledGroups(TestOctets, FALSE, TRUE)

\* Groups that are not one or two hexadecimal digits.
OddGroups ==
    { <<>>, <<"g">>, <<"x", "1">>, <<"a", "g">>, <<"G", "0">>,
      <<" ", "1">>, <<"1", " ">>, <<"0", "x", "1">>,
      <<"+">>, <<"+", "1">>, <<"+", "0", "1">>, <<"+", "f", "f">>,
      <<"0", "0", "1">>, <<"0", "0", "0">>, <<"0", "f", "f">>,
      <<"1", "0", "0">>, <<"f", "f", "f">>, <<"0", "1", "2", "3", "4">> }

MacTexts ==
    { [groups |-> SpelledGroups(o, u, p), delims |-> Uniform(d, 5)] :
          o \in SpelledOctets, u \in BOOLEAN, p \in BOOLEAN, d \in {":", "-"} }
    \cup { [groups |-> SubSeq(TestGroups \o TestGroups, 1, n),
            delims |-> Uniform(d, n - 1)] :
               n \in 1 .. 8, d \in {":", "-", "."} }
    \cup { [groups |-> << <<>> >>, delims |-> <<>>] }
    \cup { [groups |-> [TestGroups EXCEPT ![p] = g],
            delims |-> Uniform(d, 5)] :
               p \in 1 .. 6, g \in OddGroups, d \in {":", "-"} }
    \cup { [groups |-> TestGroups, delims |-> ds] :
               ds \in [1 .. 5 -> {":", "-", "."}] }

\* Segments of dotted text, each with the u8 it stands for (0 when it is not
\* one).
Segment(text, value) == [text |-> text, value |-> value]
CoreSegments ==
    { Segment(<<>>, 0), Segment(<<"1">>, 1), Segment(<<"2", "5", "5">>, 255),
      Segment(<<"2", "5", "6">>, 0), Segment(<<"a">>, 0) }
MoreSegments ==
    { Segment(<<"0">>, 0), Segment(<<"1", "0">>, 10),
      Segment(<<"1", "2", "7">>, 127), Segment(<<"9", "9", "9">>, 0),
      Segment(<<"1", "0", "0", "0">>, 0), Segment(<<"0", "0", "7">>, 7),
      Segment(<<"0", "2", "5", "5">>, 255), Segment(<<"1", "a">>, 0),
      Segment(<<"f", "f">>, 0), Segment(<<"+", "1">>, 1),
      Segment(<<"+">>, 0), Segment(<<"-", "1">>, 0),
      Segment(<<" ", "1">>, 0), Segment(<<"0", "x", "1">>, 0) }
LongSegments == { Segment(<<"7">>, 7), Segment(<<"x">>, 0) }
LoopbackSegments ==
    << Segment(<<"1", "2", "7">>, 127), Segment(<<"0">>, 0),
       Segment(<<"0">>, 0), Segment(<<"1">>, 1) >>

Ipv4Texts ==
    UNION { [1 .. n -> CoreSegments] : n \in 1 .. 4 }
    \cup UNION { [1 .. n -> LongSegments] : n \in 5 .. 6 }
    \cup { [LoopbackSegments EXCEPT ![p] = s] :
               p \in 1 .. 4, s \in MoreSegments }
    \cup { LoopbackSegments }

DottedText(segments) ==
    Join([i \in 1 .. Len(segments) |-> segments[i].text],
         Uniform(".", Len(segments) - 1))

InitValue ==
    /\ IdleThreads
    /\ IdlePing
    /\ IdleCodec
    /\ pc = "call"
    /\ out = <<>>
    /\ \/ task = "n16_new" /\ arg \in Values16
       \/ task = "n16_set" /\ arg \in Held16 \X Values16
       \/ task = "n32_new" /\ arg \in Values32
       \/ task = "n32_set" /\ arg \in Held32 \X Values32
       \/ task = "mac_round_trip" /\ arg \in MacAddrs
       \/ task = "mac_from_str" /\ arg \in MacTexts
       \/ task = "mac_try_parse" /\ arg \in MacTexts \X {":", "-"}
       \/ task = "ipv4_from_str" /\ arg \in Ipv4Texts

\* n16::new(v) and get() of it.
CallN16New ==
    /\ task = "n16_new"
    /\ Return([stored |-> N16New(arg), got |-> N16Get(N16New(arg))])

\* x.set(v) and get() of x.
CallN16Set ==
    /\ task = "n16_set"
    /\ LET x == N16Set(arg[1], arg[2])
       IN  Return([stored |-> x, got |-> N16Get(x)])

CallN32New ==
    /\ task = "n32_new"
    /\ Return([stored |-> N32New(arg), got |-> N32Get(N32New(arg))])

CallN32Set ==
    /\ task = "n32_set"
    /\ LET x == N32Set(arg[1], arg[2])
       IN  Return([stored |-> x, got |-> N32Get(x)])

\* m.to_string() and MacAddr::from_str of it.
CallMacRoundTrip ==
    /\ task = "mac_round_trip"
    /\ LET text == MacToString(arg)
       IN  Return([text |-> text, parsed |-> MacFromStr(text)])

\* MacAddr::from_str of a text.
CallMacFromStr ==
    /\ task = "mac_from_str"
    /\ Return(MacFromStr(TextOf(arg)))

\* One attempt of the parser, with one delimiter.
CallMacTryParse ==
    /\ task = "mac_try_parse"
    /\ Return(TryParseWithDelimeter(TextOf(arg[1]), arg[2]))

\* Ipv4Addr::from_str of a dotted text.
CallIpv4FromStr ==
    /\ task = "ipv4_from_str"
    /\ Return(Ipv4FromStr(DottedText(arg)))

NextValue ==
    \/ CallN16New
    \/ CallN16Set
    \/ CallN32New
    \/ CallN32Set
    \/ CallMacRoundTrip
    \/ CallMacFromStr
    \/ CallMacTryParse
    \/ CallIpv4FromStr

SpecValue == InitValue /\ [][NextValue]_vars

-----------------------------------------------------------------------------
(* Properties of the value types.                                          *)

\* The bytes of a number, most significant first, by repeated division.
RECURSIVE BigEndianBytes(_, _)
BigEndianBytes(v, n) ==
    IF n = 0 THEN <<>> ELSE Append(BigEndianBytes(v \div 256, n - 1), v % 256)

\* C15: n16::new(v).get() = v and, after x.set(v) on any n16 x, x.get() = v;
\* the stored bytes are the high byte of v, then the low byte.  The same for
\* n32 with four bytes.
C15_NetworkOrder ==
    /\ Returned("n16_new") =>
           /\ out.got = arg
           /\ out.stored = BigEndianBytes(arg, 2)
           /\ arg = 4660 => out.stored = <<18, 52>>
    /\ Returned("n16_set") =>
           /\ out.got = arg[2]
           /\ out.stored = BigEndianBytes(arg[2], 2)
    /\ Returned("n32_new") =>
           /\ out.got = arg
           /\ out.stored = BigEndianBytes(arg, 4)
           /\ arg = 305419896 => out.stored = <<18, 52, 86, 120>>
    /\ Returned("n32_set") =>
           /\ out.got = arg[2]
           /\ out.stored = BigEndianBytes(arg[2], 4)

\* An n16 holding 0x0102 was set to 0xABCD.
C15_Witness ==
    /\ Returned("n16_set")
    /\ arg = <<(<<1, 2>>), 43981>>
    /\ out.stored = <<171, 205>>

\* C16: for every MacAddr m, m.to_string() is six two-digit upper-case
\* hexadecimal pairs joined by '-', and MacAddr::from_str of it is m.
C16_MacRoundTrip ==
    Returned("mac_round_trip") =>
        /\ Len(out.text) = 17
        /\ \A k \in 0 .. 5 :
               /\ out.text[3 * k + 1] = HexTable[(arg.bytes[k + 1] \div 16) + 1]
               /\ out.text[3 * k + 2] = HexTable[(arg.bytes[k + 1] % 16) + 1]
        /\ \A k \in 1 .. 5 : out.text[3 * k] = "-"
        /\ arg.bytes = <<1, 35, 69, 103, 137, 171>> =>
               out.text = <<"0", "1", "-", "2", "3", "-", "4", "5", "-",
                            "6", "7", "-", "8", "9", "-", "A", "B">>
        /\ out.parsed = arg

\* An address with octets below and above 16 went through the round trip.
C16_Witness ==
    /\ Returned("mac_round_trip")
    /\ arg.bytes = <<0, 10, 255, 0, 10, 255>>
    /\ out.parsed = arg

\* What the text of a group means, read off the digit tables.
HexChars == { HexTable[i] : i \in 1 .. 16 } \cup { LowerHexTable[i] : i \in 1 .. 16 }
HexCharValue(c) ==
    IF \E i \in 1 .. 16 : HexTable[i] = c
    THEN (CHOOSE i \in 1 .. 16 : HexTable[i] = c) - 1
    ELSE (CHOOSE i \in 1 .. 16 : LowerHexTable[i] = c) - 1
HasNonHex(g) == \E i \in 1 .. Len(g) : g[i] \notin HexChars
IsHexGroup(g) == Len(g) \in {1, 2} /\ ~HasNonHex(g)
GroupValue(g) ==
    IF Len(g) = 1 THEN HexCharValue(g[1])
    ELSE 16 * HexCharValue(g[1]) + HexCharValue(g[2])
GroupsUnder(t, d) == 1 + Cardinality({ i \in 1 .. Len(t.delims) : t.delims[i] = d })
Uses(t, d) == \E i \in 1 .. Len(t.delims) : t.delims[i] = d

\* C17: MacAddr::from_str never fails: six groups of one or two hexadecimal
\* digits, joined all by ':' or all by '-', parse to the address of those
\* octets; a text with other than six groups under both delimiters, with a
\* non-hex character in a group, with another delimiter such as '.', or with
\* ':' and '-' mixed parses to the all-zero address.
C17_MacFromStr ==
    Returned("mac_from_str") =>
        /\ ( /\ Len(arg.groups) = 6
             /\ \A i \in 1 .. 6 : IsHexGroup(arg.groups[i])
             /\ arg.delims \in {Uniform(":", 5), Uniform("-", 5)} )
           => out = [bytes |-> [i \in 1 .. 6 |-> GroupValue(arg.groups[i])]]
        /\ ( \/ GroupsUnder(arg, ":") # 6 /\ GroupsUnder(arg, "-") # 6
             \/ \E i \in 1 .. Len(arg.groups) : HasNonHex(arg.groups[i])
             \/ Uses(arg, ".")
             \/ Uses(arg, ":") /\ Uses(arg, "-") )
           => out = MacDefault

\* "+1:23:45:67:89:ab" was parsed, to 01:23:45:67:89:ab.
C17_Witness ==
    /\ Returned("mac_from_str")
    /\ arg.groups[1] = <<"+", "1">>
    /\ arg.delims = Uniform(":", 5)
    /\ out = [bytes |-> TestOctets]

\* C18: when any of the six groups under a delimiter is empty, has three or
\* more characters, or holds a character that is not a hexadecimal digit,
\* try_parse_with_delimeter returns None for that delimiter; when both
\* delimiters fail, from_str returns the all-zero address.
C18_RejectsBadGroup ==
    /\ ( /\ Returned("mac_try_parse")
         /\ Len(arg[1].groups) = 6
         /\ arg[1].delims = Uniform(arg[2], 5)
         /\ \E i \in 1 .. 6 : ~IsHexGroup(arg[1].groups[i]) )
       => out = NoMac
    /\ ( /\ Returned("mac_from_str")
         /\ TryParseWithDelimeter(TextOf(arg), ":") = NoMac
         /\ TryParseWithDelimeter(TextOf(arg), "-") = NoMac )
       => out = MacDefault

\* "001:23:45:67:89:ab" was parsed with ':', to 01:23:45:67:89:ab.
C18_Witness ==
    /\ Returned("mac_try_parse")
    /\ arg[1].groups[1] = <<"0", "0", "1">>
    /\ arg[1].delims = Uniform(":", 5)
    /\ arg[2] = ":"
    /\ out = SomeAddr([bytes |-> TestOctets])

\* C19: Ipv4Addr::from_str never fails: octet i (i = 0..3) is the u8 value of
\* the i-th segment between the dots, or 0 when that segment is not a u8
\* (empty, non-numeric, above 255); segments after the fourth are ignored and
\* octets without a segment stay 0.
C19_Ipv4FromStr ==
    Returned("ipv4_from_str") =>
        /\ out.bytes =
               [i \in 1 .. 4 |-> IF i <= Len(arg) THEN arg[i].value ELSE 0]
        /\ arg = LoopbackSegments => out = Loopback

\* "x.7.x.7.x.7" was parsed: six segments, invalid ones among the first four.
C19_Witness ==
    /\ Returned("ipv4_from_str")
    /\ Len(arg) = 6
    /\ arg[1].value = 0 /\ arg[2].value = 7 /\ arg[6].value = 7
    /\ out.bytes = <<0, 7, 0, 7>>

-----------------------------------------------------------------------------
(* Threads.  Each thread owns one job: an input and the frame or address   *)
(* it makes of it.  A step of a thread is one call, and Ipv4::checksum and *)
(* Tcp::checksum, which take &mut self, are two steps: the store of 0 and  *)
(* the store of the compiled sum.  The steps of the threads interleave.    *)

Threads == {1, 2}

\* The two stores of a checksum call go to the frame the call was made on.
WriteChecksumShared(ths, t, value) ==
    [u \in DOMAIN ths |->
        IF ths[u].pc \in {"zero", "store", "validate", "encode"}
        THEN [ths[u] EXCEPT !.frame.header.checksum.data = value]
        ELSE ths[u]]

WriteChecksum(ths, t, value) ==
    [ths EXCEPT ![t].frame.header.checksum.data = value]

\* The jobs: a buffer to decode, checksum or validate, and encode again; a
\* text to parse and format again.
Job(prog, input, src_addr, dst_addr) ==
    [prog |-> prog, input |-> input, src_addr |-> src_addr,
     dst_addr |-> dst_addr]

ThreadTexts(l) ==
    { Join(SpelledGroups(SubSeq(o, 1, l), u, FALSE), Uniform(d, l - 1)) :
          o \in {TestOctets}, u \in BOOLEAN, d \in {":", "."} }

\* The constructed frames that carry the most data.
ThreadFrames(k) == { f \in BuiltFrames(k) : Len(f.data) = MaxData }

Jobs ==
    { Job("ipv4", Ipv4ToBytes(f), Loopback, Loopback) :
          f \in ThreadFrames("Ipv4") }
    \cup { Job("ipv4", Fill(19, 0), Loopback, Loopback) }
    \cup { Job("tcp", TcpToBytes(f), SrcAddr(TRUE, 1), Loopback) :
          f \in ThreadFrames("Tcp") }
    \cup { Job("udp", UdpToBytes(a.dgram), a.src_addr, a.dst_addr) :
          a \in TestVectors }
    \cup { Job("udp", UdpToBytes(f), Loopback, Loopback) :
          f \in ThreadFrames("Udp") }
    \cup { Job("mac", s, Loopback, Loopback) : s \in ThreadTexts(6) }
    \cup { Job("ip", s, Loopback, Loopback) : s \in ThreadTexts(4) }

FirstPc(prog) == IF prog \in {"mac", "ip"} THEN "parse" ELSE "decode"

Start(job) ==
    [job |-> job, pc |-> FirstPc(job.prog), frame |-> NoFrame,
     valid |-> FALSE, out |-> <<>>]

InitThreads ==
    /\ IdleCodec
    /\ IdleSum
    /\ IdlePing
    /\ pc = "threads"
    /\ threads \in [Threads -> { Start(j) : j \in Jobs }]

Moved(ths) ==
    /\ threads' = ths
    /\ UNCHANGED <<kind, pc, bytes, frame, res, orig, sumVars, ping>>

\* from_bytes of the thread's buffer; None ends the job.
ThreadDecode(t) ==
    LET th == threads[t]
        r == CASE th.job.prog = "ipv4" -> Ipv4FromBytes(th.job.input)
               [] th.job.prog = "tcp" -> TcpFromBytes(th.job.input)
               [] th.job.prog = "udp" -> UdpFromBytes(th.job.input)
    IN  /\ th.pc = "decode"
        /\ Moved([threads EXCEPT
               ![t].frame = r.frame,
               ![t].pc = IF r.tag # "Some" THEN "done"
                         ELSE IF th.job.prog = "udp" THEN "validate"
                         ELSE "zero"])

\* The first statement of checksum().
ThreadZero(t) ==
    /\ threads[t].pc = "zero"
    /\ Moved([WriteChecksum(threads, t, 0) EXCEPT ![t].pc = "store"])

\* The second statement of checksum().
ThreadStore(t) ==
    LET th == threads[t]
        value == IF th.job.prog = "ipv4" THEN Ipv4CompiledSum(th.frame)
                 ELSE TcpCompiledSum(th.frame, th.job.src_addr,
                                     th.job.dst_addr)
    IN  /\ th.pc = "store"
        /\ Moved([WriteChecksum(threads, t, value) EXCEPT ![t].pc = "encode"])

\* is_valid of the thread's datagram.
ThreadValidate(t) ==
    LET th == threads[t]
    IN  /\ th.pc = "validate"
        /\ Moved([threads EXCEPT
               ![t].valid = UdpIsValid(th.frame, th.job.src_addr,
                                       th.job.dst_addr),
               ![t].pc = "encode"])

\* to_bytes of the thread's frame.
ThreadEncode(t) ==
    LET th == threads[t]
    IN  /\ th.pc = "encode"
        /\ Moved([threads EXCEPT
               ![t].out = CASE th.job.prog = "ipv4" -> Ipv4ToBytes(th.frame)
                            [] th.job.prog = "tcp" -> TcpToBytes(th.frame)
                            [] th.job.prog = "udp" -> UdpToBytes(th.frame),
               ![t].pc = "done"])

\* from_str of the thread's text.
ThreadParse(t) ==
    LET th == threads[t]
    IN  /\ th.pc = "parse"
        /\ Moved([threads EXCEPT
               ![t].frame = IF th.job.prog = "mac"
                            THEN MacFromStr(th.job.input)
                            ELSE Ipv4FromStr(th.job.input),
               ![t].pc = "format"])

\* to_string of the thread's address.
ThreadFormat(t) ==
    LET th == threads[t]
    IN  /\ th.pc = "format"
        /\ Moved([threads EXCEPT
               ![t].out = IF th.job.prog = "mac" THEN MacToString(th.frame)
                          ELSE Ipv4ToString(th.frame),
               ![t].pc = "done"])

StepDecode == \E t \in Threads : ThreadDecode(t)
StepZero == \E t \in Threads : ThreadZero(t)
StepStore == \E t \in Threads : ThreadStore(t)
StepValidate == \E t \in Threads : ThreadValidate(t)
StepEncode == \E t \in Threads : ThreadEncode(t)
StepParse == \E t \in Threads : ThreadParse(t)
StepFormat == \E t \in Threads : ThreadFormat(t)

NextThreads ==
    \/ StepDecode
    \/ StepZero
    \/ StepStore
    \/ StepValidate
    \/ StepEncode
    \/ StepParse
    \/ StepFormat

SpecThreads == InitThreads /\ [][NextThreads]_vars

\* What a job comes to when its calls run one after the other, alone.
Alone(job) ==
    CASE job.prog = "ipv4" ->
           LET r == Ipv4FromBytes(job.input)
               f == Ipv4Checksum(r.frame)
           IN  IF r.tag = "Some"
               THEN [frame |-> f, valid |-> FALSE, out |-> Ipv4ToBytes(f)]
               ELSE [frame |-> r.frame, valid |-> FALSE, out |-> <<>>]
      [] job.prog = "tcp" ->
           LET r == TcpFromBytes(job.input)
               f == TcpChecksum(r.frame, job.src_addr, job.dst_addr)
           IN  IF r.tag = "Some"
               THEN [frame |-> f, valid |-> FALSE, out |-> TcpToBytes(f)]
               ELSE [frame |-> r.frame, valid |-> FALSE, out |-> <<>>]
      [] job.prog = "udp" ->
           LET r == UdpFromBytes(job.input)
           IN  IF r.tag = "Some"
               THEN [frame |-> r.frame,
                     valid |-> UdpIsValid(r.frame, job.src_addr, job.dst_addr),
                     out |-> UdpToBytes(r.frame)]
               ELSE [frame |-> r.frame, valid |-> FALSE, out |-> <<>>]
      [] job.prog = "mac" ->
           [frame |-> MacFromStr(job.input), valid |-> FALSE,
            out |-> MacToString(MacFromStr(job.input))]
      [] job.prog = "ip" ->
           [frame |-> Ipv4FromStr(job.input), valid |-> FALSE,
            out |-> Ipv4ToString(Ipv4FromStr(job.input))]

\* C21: in any interleaving of the codec calls of several threads on their
\* own inputs, each thread ends with the results and the frame it has when
\* its calls run alone; no step of one thread changes what another holds.
C21_ThreadsIndependent ==
    /\ [](\A t \in Threads :
             threads[t].pc = "done" =>
                 LET a == Alone(threads[t].job)
                 IN  /\ threads[t].frame = a.frame
                     /\ threads[t].valid = a.valid
                     /\ threads[t].out = a.out)
    /\ [][Cardinality({ t \in Threads : threads'[t] # threads[t] }) <= 1]_vars

\* Both threads finished checksum jobs on different frames.
C21_Witness ==
    /\ threads # <<>>
    /\ threads[1].pc = "done" /\ threads[1].job.prog = "ipv4"
    /\ threads[2].pc = "done" /\ threads[2].job.prog = "tcp"
    /\ Len(threads[1].out) > 20
    /\ Len(threads[2].out) > 20

-----------------------------------------------------------------------------
(* Bounds of the ping scenarios.                                           *)

\* Echo requests are sent while the clock reads at most MaxTime.
MaxTime == 1
\* A behaviour makes at most MaxSends calls of send_ping that write.
MaxSends == 3
\* The echo file delivers at most MaxErrors packets that count as errors.
MaxErrors == 1
\* A batch of on_echo_event reads at most MaxReads times before the file
\* would block.
MaxReads == 2

-----------------------------------------------------------------------------
(* The ping program of src/ping/ping.rs.  A time is a reading of the       *)
(* monotonic clock in whole seconds; a map is a function on its keys.      *)

PingTimeoutS == 5
EchoPayloadStructSize == 64

EmptyMap == [k \in {} |-> 0]
Insert(m, k, v) == [x \in DOMAIN m \cup {k} |-> IF x = k THEN v ELSE m[x]]
Remove(m, k) == [x \in DOMAIN m \ {k} |-> m[x]]
FirstKey(m) == CHOOSE k \in DOMAIN m : \A x \in DOMAIN m : k <= x

StatsNew == [total_sent |-> 0, total_received |-> 0, total_errors |-> 0]
RecordSent(stats) == [stats EXCEPT !.total_sent = @ + 1]
RecordReceived(stats) == [stats EXCEPT !.total_received = @ + 1]
RecordError(stats) == [stats EXCEPT !.total_errors = @ + 1]

PingNew(packets_to_send, identifier) ==
    [seq |-> 0, received |-> 0, identifier |-> identifier,
     packets_to_send |-> packets_to_send, sent_count |-> 0,
     stats |-> StatsNew, seq_to_timeout |-> EmptyMap,
     timeout_to_seq |-> EmptyMap]

\* send_ping: the Ping value after the call.  Nothing is written when the
\* 16-bit sequence number has reached packets_to_send.
SendPing(p, time) ==
    IF p.packets_to_send # 0 /\ p.seq >= p.packets_to_send
    THEN p
    ELSE LET timeout_ts == time + PingTimeoutS
         IN  [p EXCEPT !.sent_count = @ + 1,
                       !.seq_to_timeout = Insert(@, p.seq, timeout_ts),
                       !.timeout_to_seq = Insert(@, timeout_ts, p.seq),
                       !.seq = (@ + 1) % 65536,
                       !.stats = RecordSent(@)]

\* check_timeouts: pop the earliest entry until one lies after now.
RECURSIVE CheckTimeouts(_, _)
CheckTimeouts(p, now) ==
    IF DOMAIN p.timeout_to_seq = {} THEN p
    ELSE LET ts == FirstKey(p.timeout_to_seq)
             seq == p.timeout_to_seq[ts]
         IN  IF ts > now THEN p
             ELSE CheckTimeouts(
                      [p EXCEPT !.timeout_to_seq = Remove(@, ts),
                                !.seq_to_timeout = Remove(@, seq),
                                !.stats = RecordError(@)], now)

\* is_finished: Some(()) or None.
IsFinished(p) ==
    LET all_packets_sent ==
            p.packets_to_send = 0 \/ p.seq >= p.packets_to_send
        no_pending_requests == DOMAIN p.seq_to_timeout = {}
    IN  IF all_packets_sent /\ no_pending_requests THEN "Some" ELSE "None"

\* The body of on_time_event after the clock was read.
OnTimeEventBody(p, now) == CheckTimeouts(SendPing(p, now), now)

\* One pass of the batch loop of on_echo_event on what the read returned:
\* what happens to the loop, and the Ping value and the count of this batch.
EchoPass(p, total_received, read) ==
    LET stay == [next |-> "continue", p |-> p, total_received |-> total_received]
    IN  IF read.kind = "WouldBlock" THEN [stay EXCEPT !.next = "break"]
        ELSE IF read.kind = "Err" THEN [stay EXCEPT !.next = "err"]
        ELSE IF read.type_ # 0 \/ read.code # 0 THEN stay
        ELSE IF read.identifier # p.identifier THEN stay
        ELSE IF read.size = 0 THEN [stay EXCEPT !.next = "break"]
        ELSE IF read.size < EchoPayloadStructSize
             THEN [stay EXCEPT !.next = "err"]
        ELSE IF read.seq \in DOMAIN p.seq_to_timeout
             THEN [next |-> "continue",
                   p |-> [p EXCEPT
                       !.seq_to_timeout = Remove(@, read.seq),
                       !.timeout_to_seq =
                           Remove(@, p.seq_to_timeout[read.seq]),
                       !.stats = RecordReceived(@)],
                   total_received |-> total_received + 1]
             ELSE [stay EXCEPT !.p.stats = RecordError(@)]

\* The end of on_echo_event, after the loop.
EchoTail(p, total_received) == [p EXCEPT !.received = @ + total_received]

\* The program around the Ping value: the clock, the event loop, and the
\* batch loop of on_echo_event between two reads.
PingState(p) ==
    [p |-> p, now |-> 0, pc |-> "loop", ret |-> "None", total_received |-> 0,
     reads |-> 0, last_read |-> "none", sends |-> 0]

\* A Ping value that has sent n requests and has had a reply to each.
MidRun(packets_to_send, identifier, n) ==
    [PingNew(packets_to_send, identifier) EXCEPT
        !.seq = n % 65536, !.sent_count = n, !.received = n,
        !.stats = [total_sent |-> n, total_received |-> n, total_errors |-> 0]]

Identifiers == {0, 7}

PingValues ==
    { PingNew(n, i) : n \in 0 .. MaxSends, i \in Identifiers }
    \cup { MidRun(n, i, 65534) : n \in {65535, 65536}, i \in Identifiers }

\* What a read of the echo file can return: would-block, an error, 0 bytes
\* (the zeroed buffer is left as it was), the first 8 bytes of a packet or a
\* whole packet.
WouldBlock == [kind |-> "WouldBlock"]
ReadErr == [kind |-> "Err"]
Packet(size, type_, code, identifier, seq) ==
    [kind |-> "Ok", size |-> size, type_ |-> type_, code |-> code,
     identifier |-> identifier, seq |-> seq]
Eof == Packet(0, 0, 0, 0, 0)

EchoReads ==
    { WouldBlock, ReadErr, Eof, Packet(64, 8, 0, 7, 0), Packet(64, 0, 1, 7, 0) }
    \cup { Packet(s, 0, 0, i, q) :
               s \in {8, 64}, i \in Identifiers, q \in {0, 1, 2, 65535} }

ReadClass(read) ==
    IF read.kind # "Ok" THEN read.kind
    ELSE IF read.size = 0 THEN "eof"
    ELSE IF read.size < EchoPayloadStructSize THEN "short"
    ELSE "packet"

InitPing ==
    /\ IdleCodec
    /\ IdleSum
    /\ IdleThreads
    /\ pc = "ping"
    /\ ping \in { PingState(p) : p \in PingValues }

PingMoved(next) ==
    /\ ping' = next
    /\ UNCHANGED <<kind, pc, bytes, frame, res, orig, sumVars, threads>>

\* A call of send_ping would write a request.
WouldSend(p) == ~(p.packets_to_send # 0 /\ p.seq >= p.packets_to_send)

\* The environment lets a call that writes happen early and MaxSends times.
MaySend == WouldSend(ping.p) => (ping.now <= MaxTime /\ ping.sends < MaxSends)

Counted(p) == IF p.sent_count # ping.p.sent_count THEN ping.sends + 1
              ELSE ping.sends

\* The return of an event handler: the event loop of main ends on Some.
Returned2(state, p) ==
    [state EXCEPT !.p = p, !.ret = IsFinished(p),
                  !.pc = IF IsFinished(p) = "Some" THEN "finished" ELSE "loop"]

\* The monotonic clock moves on; it passes MaxTime when no send is left.
Tick ==
    /\ ping.pc = "loop"
    /\ \/ ping.now < MaxTime
       \/ /\ ping.now < MaxTime + PingTimeoutS
          /\ ~WouldSend(ping.p) \/ ping.sends >= MaxSends
    /\ PingMoved([ping EXCEPT !.now = @ + 1])

\* send_ping(now), called from outside the handlers.
CallSendPing ==
    /\ ping.pc = "loop"
    /\ MaySend
    /\ LET p == SendPing(ping.p, ping.now)
       IN  PingMoved([ping EXCEPT !.p = p, !.sends = Counted(p)])

\* check_timeouts(now), on its own.
CallCheckTimeouts ==
    /\ ping.pc = "loop"
    /\ PingMoved([ping EXCEPT !.p = CheckTimeouts(ping.p, ping.now)])

\* on_time_event.
OnTimeEvent ==
    /\ ping.pc = "loop"
    /\ MaySend
    /\ LET p == OnTimeEventBody(ping.p, ping.now)
       IN  PingMoved(Returned2([ping EXCEPT
               !.sends = Counted(SendPing(ping.p, ping.now))], p))

\* on_echo_event up to its loop.
OnEchoEvent ==
    /\ ping.pc = "loop"
    /\ PingMoved([ping EXCEPT !.pc = "echo_loop", !.total_received = 0,
                              !.reads = 0, !.last_read = "none"])

\* One read of the batch loop and what the loop does with it; after the
\* loop, the rest of on_echo_event.
EchoRead ==
    /\ ping.pc = "echo_loop"
    /\ \E read \in EchoReads :
           LET r == EchoPass(ping.p, ping.total_received, read)
               seen == [ping EXCEPT !.reads = @ + 1,
                                    !.last_read = ReadClass(read)]
           IN  /\ ping.reads >= MaxReads => read = WouldBlock
               /\ r.p.stats.total_errors > ping.p.stats.total_errors =>
                      ping.p.stats.total_errors < MaxErrors
               /\ PingMoved(
                      CASE r.next = "continue" ->
                             [seen EXCEPT !.p = r.p,
                                          !.total_received = r.total_received]
                        [] r.next = "break" ->
                             Returned2(seen, EchoTail(r.p, r.total_received))
                        [] r.next = "err" ->
                             [seen EXCEPT !.ret = "Err", !.pc = "failed"])

NextPing ==
    \/ Tick
    \/ CallSendPing
    \/ CallCheckTimeouts
    \/ OnTimeEvent
    \/ OnEchoEvent
    \/ EchoRead

SpecPing == InitPing /\ [][NextPing]_vars

\* The same program with time events that keep firing and a clock that keeps
\* moving while the event loop runs, and reads that return.
SpecPingLive ==
    /\ InitPing
    /\ [][NextPing]_vars
    /\ SF_vars(Tick)
    /\ SF_vars(OnTimeEvent)
    /\ WF_vars(EchoRead)

-----------------------------------------------------------------------------
(* The ping program of src/ping/main.rs, which has a Ping and a            *)
(* PingStatistics of its own.  A time is a whole number of seconds.        *)

\* The event loop handles at most MaxEchoes echo events.
MaxEchoes == 3

\* The time file delivers alarms up to this time.
MainLastAlarm == MaxTime + PingTimeoutS + MaxSends

MainStatsNew == [total_sent |-> 0, total_received |-> 0, total_errors |-> 0]
MainRecordSent(stats) == [stats EXCEPT !.total_sent = @ + 1]
MainRecordReceived(stats) == [stats EXCEPT !.total_received = @ + 1]
MainRecordError(stats) == [stats EXCEPT !.total_errors = @ + 1]

\* packet_loss_percentage up to the division: the difference of two u32
\* values, which panics or wraps around when it is negative, as the build
\* checks overflow or not.
MainPacketLoss(stats) ==
    IF stats.total_sent = 0 THEN {<<"exact", 0>>}
    ELSE IF stats.total_received > stats.total_sent
         THEN {<<"panic">>,
               <<"wrapped", stats.total_received - stats.total_sent>>}
         ELSE {<<"exact", stats.total_sent - stats.total_received>>}

MainPingNew(packets_to_send, interval) ==
    [seq |-> 0, received |-> 0, waiting_for |-> EmptyMap,
     packets_to_send |-> packets_to_send, interval |-> interval,
     stats |-> MainStatsNew]

\* send_ping of main.rs; the sequence numbers of the scenarios stay far
\* below 65535.
MainSendPing(p, time) ==
    IF p.packets_to_send # 0 /\ p.seq >= p.packets_to_send
    THEN p
    ELSE [p EXCEPT !.waiting_for = Insert(@, time + PingTimeoutS, p.seq),
                   !.seq = @ + 1,
                   !.stats = MainRecordSent(@)]

\* check_timeouts of main.rs: drop the earliest entry until one lies after
\* time.
RECURSIVE MainCheckTimeouts(_, _)
MainCheckTimeouts(p, time) ==
    IF DOMAIN p.waiting_for = {} THEN p
    ELSE LET ts == FirstKey(p.waiting_for)
         IN  IF ts > time THEN p
             ELSE MainCheckTimeouts(
                      [p EXCEPT !.waiting_for = Remove(@, ts)], time)

MainIsFinished(p) ==
    IF /\ p.packets_to_send # 0
       /\ p.seq = p.packets_to_send
       /\ DOMAIN p.waiting_for = {}
    THEN "Some" ELSE "None"

\* on_echo_event of main.rs on what the read returned: the Ping value after
\* the call and what the call returns.
MainEchoEvent(p, read) ==
    IF read.kind = "Err" THEN [p |-> p, ret |-> "Err"]
    ELSE LET readed == IF read.kind = "WouldBlock" THEN 0 ELSE read.size
             counted == [p EXCEPT !.stats = IF p.received > 0
                                            THEN MainRecordReceived(@)
                                            ELSE MainRecordError(@)]
             matched == { ts \in DOMAIN p.waiting_for :
                              p.waiting_for[ts] = read.seq }
             kept == [ts \in DOMAIN p.waiting_for \ matched |->
                          p.waiting_for[ts]]
             after == [counted EXCEPT !.waiting_for = kept,
                                      !.received = @ + Cardinality(matched)]
         IN  IF readed = 0 THEN [p |-> counted, ret |-> "None"]
             ELSE IF readed < EchoPayloadStructSize
                  THEN [p |-> counted, ret |-> "Err"]
             ELSE [p |-> after, ret |-> MainIsFinished(after)]

\* The program around the Ping value: the time the time file delivers next,
\* the position of main, what the last handler returned, the echo events
\* handled, and the packet loss that was printed.
MainState(p) ==
    [p |-> p, alarm |-> 0, pc |-> "start", ret |-> "None", echoes |-> 0,
     loss |-> <<>>]

Intervals == {1, 2}

MainReads ==
    { WouldBlock, ReadErr }
    \cup { [kind |-> "Ok", size |-> s, seq |-> q] :
               s \in {0, 8, 64}, q \in 0 .. MaxSends - 1 }

InitMain ==
    /\ IdleCodec
    /\ IdleSum
    /\ IdleThreads
    /\ pc = "ping_main"
    /\ ping \in { MainState(MainPingNew(n, i)) :
                      n \in 0 .. MaxSends, i \in Intervals }

\* What main does with the return of a handler.
MainReturned(state, r) ==
    [state EXCEPT !.p = r.p, !.ret = r.ret,
                  !.pc = CASE r.ret = "Some" -> "break"
                           [] r.ret = "Err" -> "failed"
                           [] OTHER -> "loop"]

\* main sends the first request at the current time and schedules the first
\* alarm.
MainStart ==
    /\ ping.pc = "start"
    /\ PingMoved([ping EXCEPT !.p = MainSendPing(@, ping.alarm),
                              !.alarm = @ + ping.p.interval,
                              !.pc = "loop"])

\* A time event: on_time_event.
MainOnTimeEvent ==
    /\ ping.pc = "loop"
    /\ ping.alarm <= MainLastAlarm
    /\ LET p == MainCheckTimeouts(MainSendPing(ping.p, ping.alarm),
                                  ping.alarm)
       IN  PingMoved(MainReturned(
               [ping EXCEPT !.alarm = @ + ping.p.interval],
               [p |-> p, ret |-> MainIsFinished(p)]))

\* An echo event: on_echo_event.
MainOnEchoEvent ==
    /\ ping.pc = "loop"
    /\ ping.echoes < MaxEchoes
    /\ \E read \in MainReads :
           PingMoved(MainReturned([ping EXCEPT !.echoes = @ + 1],
                                  MainEchoEvent(ping.p, read)))

\* The event queue reports an interrupted call and the loop is left.
MainInterrupted ==
    /\ ping.pc = "loop"
    /\ PingMoved([ping EXCEPT !.pc = "break"])

\* print_final_statistics after the loop.
MainPrintFinalStatistics ==
    /\ ping.pc = "break"
    /\ \E loss \in MainPacketLoss(ping.p.stats) :
           PingMoved([ping EXCEPT !.loss = loss, !.pc = "printed"])

NextMain ==
    \/ MainStart
    \/ MainOnTimeEvent
    \/ MainOnEchoEvent
    \/ MainInterrupted
    \/ MainPrintFinalStatistics

SpecMain == InitMain /\ [][NextMain]_vars

-----------------------------------------------------------------------------
(* Properties of the ping program.                                         *)

\* C22: with packets_to_send = 0, no call of on_echo_event or on_time_event
\* returns the finished result, whatever the echo and time events are.
C22_ZeroNeverFinishes ==
    (ping.p.packets_to_send = 0) => (ping.ret # "Some")

\* With packets_to_send = 0, a request was sent, its reply was read, and the
\* handler returned the finished result.
C22_Witness ==
    /\ ping.p.packets_to_send = 0
    /\ ping.p.sent_count = 1
    /\ ping.p.received = 1
    /\ ping.ret = "Some"
    /\ ping.pc = "finished"

\* C23: for packets_to_send = N > 0, also above 65535, send_ping writes at
\* most N echo requests in total, and the finished result is not returned
\* before N requests were sent.
C23_CountIsNumberSent ==
    (ping.p.packets_to_send > 0) =>
        /\ ping.p.sent_count <= ping.p.packets_to_send
        /\ ping.ret = "Some" => ping.p.sent_count >= ping.p.packets_to_send

\* With packets_to_send = 65536 the sequence number wrapped to 0 and request
\* number 65537 was written.
C23_Witness ==
    /\ ping.p.packets_to_send = 65536
    /\ ping.p.sent_count = 65537
    /\ ping.p.seq = 1

\* C27: the two tracking maps describe the same pending set after any calls
\* of send_ping, on_echo_event and check_timeouts, two sends with the same
\* timestamp included: seq_to_timeout[s] = t exactly when
\* timeout_to_seq[t] = s.
C27_MapsAgree ==
    LET s2t == ping.p.seq_to_timeout
        t2s == ping.p.timeout_to_seq
    IN  /\ \A s \in DOMAIN s2t : s2t[s] \in DOMAIN t2s /\ t2s[s2t[s]] = s
        /\ \A t \in DOMAIN t2s : t2s[t] \in DOMAIN s2t /\ s2t[t2s[t]] = t

\* Two requests were sent with the same timestamp: both sequence numbers are
\* pending, and the one deadline names only the later one.
C27_Witness ==
    /\ ping.pc = "loop"
    /\ DOMAIN ping.p.seq_to_timeout = {0, 1}
    /\ ping.p.seq_to_timeout[0] = ping.p.seq_to_timeout[1]
    /\ DOMAIN ping.p.timeout_to_seq = {ping.p.seq_to_timeout[0]}
    /\ ping.p.timeout_to_seq[ping.p.seq_to_timeout[0]] = 1

\* C28: the batch loop of on_echo_event is left as soon as a read returns 0
\* bytes or would block, for every value of the session identifier.
C28_ExitsOnEof ==
    ping.last_read \in {"eof", "WouldBlock"} => ping.pc # "echo_loop"

\* With a session identifier other than 0, a read returned 0 bytes and the
\* loop goes on to read again.
C28_Witness ==
    /\ ping.p.identifier # 0
    /\ ping.last_read = "eof"
    /\ ping.pc = "echo_loop"
    /\ ping.reads > 0

\* C26: with time events that keep firing and a clock that passes every
\* deadline, every echo request recorded by send_ping is eventually removed
\* from the pending set, and for 0 < packets_to_send <= 65535 an event
\* handler eventually returns the finished result (or fails on a read).
C26_EventuallyFinished ==
    (ping.p.packets_to_send \in 1 .. 65535) =>
        /\ \A s \in (0 .. MaxSends) \cup {65534} :
               (s \in DOMAIN ping.p.seq_to_timeout)
                   ~> (s \notin DOMAIN ping.p.seq_to_timeout
                          \/ ping.pc = "failed")
        /\ <>(ping.ret = "Some" \/ ping.pc = "failed")

\* The clock has passed every deadline and check_timeouts has run, and a
\* request is still pending that no deadline names.
C26_Witness ==
    /\ ping.pc = "loop"
    /\ ping.p.packets_to_send = 2
    /\ ping.p.seq = 2
    /\ ping.now = MaxTime + PingTimeoutS
    /\ DOMAIN ping.p.seq_to_timeout = {0}
    /\ DOMAIN ping.p.timeout_to_seq = {}
    /\ ping.p.stats.total_errors = 1

\* C29: in the ping program of main.rs, total_received <= total_sent after
\* any send_ping, on_echo_event and on_time_event calls, so the subtraction
\* in packet_loss_percentage never underflows.
C29_ReceivedAtMostSent ==
    /\ ping.p.stats.total_received <= ping.p.stats.total_sent
    /\ ping.pc = "printed" => ping.loss[1] = "exact"

\* One request was sent and answered, two more echo events were counted as
\* replies, and the loss was printed from a difference below zero.
C29_Witness ==
    /\ ping.pc = "printed"
    /\ ping.p.stats.total_sent = 1
    /\ ping.p.received = 1
    /\ ping.p.stats.total_received = 2
    /\ ping.loss[1] # "exact"

====
